---- MODULE Spec2Model ----
(***************************************************************************)
(* Model of the logwatcher manager of squad-aegis                          *)
(* (internal/logwatcher_manager/logwatcher_manager.go): the registry of    *)
(* per-server log connections, the watcher goroutines, the reconnect       *)
(* backoff and the shutdown path.                                          *)
(***************************************************************************)
EXTENDS Integers, Sequences, FiniteSets, TLC

(***************************************************************************)
(* time.Duration is an int64 count of nanoseconds.  A value is kept as its *)
(* eight bytes, least significant first, so that shifts and products wrap  *)
(* modulo 2^64 exactly as the Go arithmetic does.                          *)
(***************************************************************************)
Int64Bytes == 8

RECURSIVE ByteOf(_, _)
ByteOf(n, i) == IF i = 1 THEN n % 256 ELSE ByteOf(n \div 256, i - 1)

\* The int64 with the value of the non-negative integer n (n < 2^31).
FromInt(n) == [i \in 1..Int64Bytes |-> ByteOf(n, i)]

RECURSIVE ColSum(_, _, _, _)
ColSum(a, b, i, j) ==
    IF j > i THEN 0 ELSE a[j] * b[i - j + 1] + ColSum(a, b, i, j + 1)

RECURSIVE MulFrom(_, _, _, _)
MulFrom(a, b, i, carry) ==
    IF i > Int64Bytes THEN << >>
    ELSE LET t == ColSum(a, b, i, 1) + carry
         IN  << t % 256 >> \o MulFrom(a, b, i + 1, t \div 256)

\* a * b on int64: the low 64 bits of the product.
Mul64(a, b) == MulFrom(a, b, 1, 0)

\* 1 << k on int64: Go gives 0 once the shift count reaches the width.
Shl1(k) ==
    [i \in 1..Int64Bytes |->
        IF k < 8 * Int64Bytes /\ i = (k \div 8) + 1 THEN 2 ^ (k % 8) ELSE 0]

\* The sign bit of an int64.
Neg64(a) == a[Int64Bytes] >= 128

RECURSIVE GtU(_, _, _)
GtU(a, b, i) ==
    IF i = 0 THEN FALSE
    ELSE IF a[i] # b[i] THEN a[i] > b[i]
    ELSE GtU(a, b, i - 1)

\* a > b on int64 (two's complement).
Gt64(a, b) ==
    IF Neg64(a) # Neg64(b) THEN Neg64(b) ELSE GtU(a, b, Int64Bytes)

Zero64 == FromInt(0)

\* time.Second, in nanoseconds.
Second == FromInt(1000000000)

baseDelay == Mul64(FromInt(5), Second)

maxDelay == Mul64(FromInt(60), Second)

calculateReconnectDelay(attempts) ==
    IF attempts = 0 THEN Zero64
    ELSE LET delay == Mul64(baseDelay, Shl1(attempts - 1))
         IN  IF Gt64(delay, maxDelay) THEN maxDelay ELSE delay


(***************************************************************************)
(* The clock.  One tick of the model clock is baseDelay (5 s), the finest  *)
(* step of the backoff table.  A timestamp t is kept as the time elapsed   *)
(* since it (time.Since(t)), in ticks, saturating: LastUsed at             *)
(* LastUsedCap, lastReconnectTime at ReconnectAgeCap.                      *)
(***************************************************************************)
AgeCap == CHOOSE t \in 1..64 : Mul64(FromInt(t), baseDelay) = maxDelay

\* A duration in ticks, rounded up (-1 for every negative duration): for a
\* whole number n of ticks, n ticks < d exactly when n < Ticks(d).
Ticks(d) ==
    IF Neg64(d) THEN -1
    ELSE LET fit == {t \in 0..AgeCap : ~Gt64(d, Mul64(FromInt(t), baseDelay))}
         IN  IF fit = {} THEN AgeCap + 1
             ELSE CHOOSE t \in fit : \A u \in fit : t <= u

MaxAttempts == 1

MaxSources == 2

LastUsedCap == 1

CountCap == 2

ClockDrift == 1

MaxAttemptsArg == 70

MaxRows == 2

MaxLines == 3

ChanCap == 2

\* calculateReconnectDelay(attempts) in ticks, for the attempt counts in use.
DelayTable == [a \in 0..(MaxAttemptsArg + 1) |-> Ticks(calculateReconnectDelay(a))]

Min(a, b) == IF a < b THEN a ELSE b

Max(a, b) == IF a < b THEN b ELSE a

\* lastReconnectTime is compared only with the delay of the record's current
\* reconnectAttempts, and it is set to now whenever reconnectAttempts changes
\* (lines 93-94 and 118-123).  So its age saturates at that delay ("the delay
\* has passed"), and at one tick when the delay is shorter.  The zero
\* time.Time{} of a new record is longer ago than any delay: the saturated age.
ReconnectAgeCap(attempts) == Max(1, DelayTable[attempts])

ServerIDs == {"s1", "s2", "s3"}

(***************************************************************************)
(* LogSourceConfig values a caller may pass.  Strings are "" or not.       *)
(* PollFrequency is in seconds.                                            *)
(***************************************************************************)
LocalCfg ==
    [Type |-> "local", FilePath |-> "/sq.log", Host |-> "", Port |-> 0,
     Username |-> "", Password |-> "", PollFrequency |-> 0]

SftpCfg ==
    [Type |-> "sftp", FilePath |-> "/sq.log", Host |-> "h", Port |-> 0,
     Username |-> "u", Password |-> "p", PollFrequency |-> 0]

NoHostCfg ==
    [Type |-> "sftp", FilePath |-> "/sq.log", Host |-> "", Port |-> 0,
     Username |-> "u", Password |-> "p", PollFrequency |-> 0]

Configs == {LocalCfg, SftpCfg, NoHostCfg}

\* Every shape of LogSourceConfig: each string empty or not, a type the switch
\* of createLogSource knows or not, a port and a poll frequency set or not,
\* the poll frequency also negative and on both sides of 300 s.
AllConfigs ==
    [Type : {"local", "sftp", "ftp", "http"}, FilePath : {"", "/sq.log"},
     Host : {"", "h"}, Port : {0, 2222}, Username : {"", "u"},
     Password : {"", "p"}, PollFrequency : {-1, 0, 1, 300, 301}]

\* Variant: an sftp source is built without a password.
createLogSourceNoPassword(config) ==
    CASE config.Type = "local" ->
            IF config.FilePath = ""
            THEN [err |-> "file path is required"]
            ELSE [err |-> "nil", Type |-> "local", Port |-> 0, PollFrequency |-> 0]
      [] config.Type = "sftp" ->
            IF config.Host = "" \/ config.Username = "" \/ config.FilePath = ""
            THEN [err |-> "host, username, and file path are required"]
            ELSE [err |-> "nil", Type |-> "sftp",
                  Port |-> IF config.Port = 0 THEN 22 ELSE config.Port,
                  PollFrequency |->
                      IF config.PollFrequency = 0 THEN 5 ELSE config.PollFrequency]
      [] config.Type = "ftp" ->
            IF config.Host = "" \/ config.Username = "" \/ config.Password = ""
               \/ config.FilePath = ""
            THEN [err |-> "host, username, password, and file path are required"]
            ELSE [err |-> "nil", Type |-> "ftp",
                  Port |-> IF config.Port = 0 THEN 21 ELSE config.Port,
                  PollFrequency |->
                      IF config.PollFrequency = 0 THEN 5 ELSE config.PollFrequency]
      [] OTHER -> [err |-> "unsupported log source type"]

\* createLogSource: the error, or "nil" and the arguments of the constructor.
createLogSource(config) ==
    CASE config.Type = "local" ->
            IF config.FilePath = ""
            THEN [err |-> "file path is required"]
            ELSE [err |-> "nil", Type |-> "local", Port |-> 0, PollFrequency |-> 0]
      [] config.Type = "sftp" ->
            IF config.Host = "" \/ config.Username = "" \/ config.FilePath = ""
            THEN [err |-> "host, username, and file path are required"]
            ELSE IF config.Password = ""
            THEN [err |-> "password is required"]
            ELSE [err |-> "nil", Type |-> "sftp",
                  Port |-> IF config.Port = 0 THEN 22 ELSE config.Port,
                  PollFrequency |->
                      IF config.PollFrequency = 0 THEN 5 ELSE config.PollFrequency]
      [] config.Type = "ftp" ->
            IF config.Host = "" \/ config.Username = "" \/ config.Password = ""
               \/ config.FilePath = ""
            THEN [err |-> "host, username, password, and file path are required"]
            ELSE [err |-> "nil", Type |-> "ftp",
                  Port |-> IF config.Port = 0 THEN 21 ELSE config.Port,
                  PollFrequency |->
                      IF config.PollFrequency = 0 THEN 5 ELSE config.PollFrequency]
      [] OTHER -> [err |-> "unsupported log source type"]

VARIABLES
    connections,    \* m.connections: server id -> ServerLogConnection
    sources,        \* every LogSource created so far, in creation order
    watchers,       \* every watchLogs goroutine started so far; watchers[i]
                    \* was started together with sources[i]
    rootCancelled,  \* m.ctx is cancelled
    managerPc,      \* StartConnectionManager: "waiting" or "stopped"
    lastCall,       \* per server id, the outcome of the most recent
                    \* ConnectToServer / DisconnectFromServer call
    arg,            \* the argument of the operation a specification singles
                    \* out (calculateReconnectDelay: attempts; ConnectToServer:
                    \* config); the other specifications leave it at 0
    ret             \* the result of that operation, << >> before the call

vars == << connections, sources, watchers, rootCancelled, managerPc,
           lastCall, arg, ret >>

NoCall == [op |-> "none", err |-> "nil", path |-> "none", remaining |-> 0]

\* LogSource (constructors NewLocalFileSource, NewSFTPSource, NewFTPSource).
NewSource == [watched |-> FALSE, closeCalls |-> 0, chan |-> "none"]

\* LogSource.Close().
CloseSource(srcs, i) ==
    [srcs EXCEPT ![i].closeCalls = Min(@ + 1, CountCap)]

\* go m.watchLogs(ctx, serverID, conn): ctx is "root" (m.ctx) or "child"
\* (the context made with the record, cancelled by conn.cancel).
NewWatcher(s, ctx) == [srv |-> s, ctx |-> ctx, pc |-> "start", src |-> 0]

\* The goroutine has returned (its channel variable is gone with it).
Return(w) == [w EXCEPT !.pc = "done", !.src = 0]

\* Variant: the context made with a record is not a child of m.ctx.
CtxDoneDetached(w) ==
    \/ w.ctx = "root" /\ rootCancelled
    \/ w.ctx = "child" /\ connections[w.srv].cancelCalls > 0

\* ctx.Done() of a watcher is closed: m.ctx is cancelled (the record's context
\* is its child, line 151), or the record's cancel has been called.
CtxDone(w) ==
    \/ rootCancelled
    \/ w.ctx = "child" /\ connections[w.srv].cancelCalls > 0

\* Time passes by d ticks: every stored timestamp is d ticks older.
Advance(conns, d) ==
    [s \in DOMAIN conns |->
        [conns[s] EXCEPT !.LastUsed = Min(@ + d, LastUsedCap),
                         !.lastReconnectTime =
                             Min(@ + d, ReconnectAgeCap(conns[s].reconnectAttempts))]]

Init ==
    /\ connections = [s \in {} |-> 0]
    /\ sources = << >>
    /\ watchers = << >>
    /\ rootCancelled = FALSE
    /\ managerPc = "waiting"
    /\ lastCall = [s \in ServerIDs |-> NoCall]
    /\ arg = 0
    /\ ret = << >>


\* m.connections[serverID] = conn
Put(conns, s, conn) ==
    [x \in DOMAIN conns \cup {s} |-> IF x = s THEN conn ELSE conns[x]]

Result(op, err, path, remaining) ==
    [op |-> op, err |-> err, path |-> path, remaining |-> remaining]

\* The watchLogs goroutines of server s that have not returned.
ActiveWatchers(ws, s) ==
    {i \in 1..Len(ws) : ws[i].srv = s /\ ws[i].pc # "done"}

(***************************************************************************)
(* ConnectToServer(serverID, config).  The whole call runs under m.mu      *)
(* (and conn.mu when the record exists), so it is one step.  drift is the  *)
(* time that passes between the two time.Since readings of lines 83, 84.   *)
(***************************************************************************)
\* Variant: a call that comes too early starts the backoff window again.
ConnectDelayedRestamps(s, config, drift) ==
    /\ s \in DOMAIN connections
    /\ ~connections[s].Connected
    /\ LET conn  == connections[s]
           delay == DelayTable[conn.reconnectAttempts]
           since == conn.lastReconnectTime
       IN  /\ since < delay
           /\ connections' = [Advance(connections, drift) EXCEPT
                  ![s].lastReconnectTime = 0]
           /\ lastCall' = [lastCall EXCEPT ![s] =
                  Result("connect", "reconnection delayed", "reconnect",
                         delay - (since + drift))]
    /\ UNCHANGED << sources, watchers, rootCancelled, managerPc, arg, ret >>

\* Lines 78-91: the record is disconnected and the backoff delay has not passed.
ConnectDelayed(s, config, drift) ==
    /\ s \in DOMAIN connections
    /\ ~connections[s].Connected
    /\ LET conn  == connections[s]
           delay == DelayTable[conn.reconnectAttempts]
           since == conn.lastReconnectTime
       IN  /\ since < delay
           /\ connections' = Advance(connections, drift)
           /\ lastCall' = [lastCall EXCEPT ![s] =
                  Result("connect", "reconnection delayed", "reconnect",
                         delay - (since + drift))]
    /\ UNCHANGED << sources, watchers, rootCancelled, managerPc, arg, ret >>

\* Variant: a failed reconnect that does not stamp lastReconnectTime.
ReconnectFailedNoStamp(s, config, limit) ==
    /\ s \in DOMAIN connections
    /\ ~connections[s].Connected
    /\ ~(connections[s].lastReconnectTime
            < DelayTable[connections[s].reconnectAttempts])
    /\ connections[s].reconnectAttempts < limit
    /\ createLogSource(config).err # "nil"
    /\ connections' = [connections EXCEPT ![s].reconnectAttempts = @ + 1]
    /\ lastCall' = [lastCall EXCEPT ![s] =
           Result("connect", "failed to reconnect to log source", "reconnect", 0)]
    /\ UNCHANGED << sources, watchers, rootCancelled, managerPc, arg, ret >>

\* Variant: a failed reconnect that has already closed the old source and
\* taken the new config.
ReconnectFailedClosesOld(s, config, limit) ==
    /\ s \in DOMAIN connections
    /\ ~connections[s].Connected
    /\ ~(connections[s].lastReconnectTime
            < DelayTable[connections[s].reconnectAttempts])
    /\ connections[s].reconnectAttempts < limit
    /\ createLogSource(config).err # "nil"
    /\ connections' = [connections EXCEPT
           ![s].reconnectAttempts = @ + 1,
           ![s].lastReconnectTime = 0,
           ![s].Config = config]
    /\ sources' = CloseSource(sources, connections[s].LogSource)
    /\ lastCall' = [lastCall EXCEPT ![s] =
           Result("connect", "failed to reconnect to log source", "reconnect", 0)]
    /\ UNCHANGED << watchers, rootCancelled, managerPc, arg, ret >>

\* Lines 93-111: the delay has passed, createLogSource fails.
ReconnectFailedUpTo(s, config, limit) ==
    /\ s \in DOMAIN connections
    /\ ~connections[s].Connected
    /\ ~(connections[s].lastReconnectTime
            < DelayTable[connections[s].reconnectAttempts])
    /\ connections[s].reconnectAttempts < limit
    /\ createLogSource(config).err # "nil"
    /\ connections' = [connections EXCEPT
           ![s].reconnectAttempts = @ + 1,
           ![s].lastReconnectTime = 0]
    /\ lastCall' = [lastCall EXCEPT ![s] =
           Result("connect", "failed to reconnect to log source", "reconnect", 0)]
    /\ UNCHANGED << sources, watchers, rootCancelled, managerPc, arg, ret >>

\* Variant: a reconnect that leaves reconnectAttempts incremented.
ReconnectKeepsAttempts(s, config) ==
    /\ s \in DOMAIN connections
    /\ ~connections[s].Connected
    /\ ~(connections[s].lastReconnectTime
            < DelayTable[connections[s].reconnectAttempts])
    /\ connections[s].reconnectAttempts < MaxAttempts
    /\ Len(sources) < MaxSources
    /\ createLogSource(config).err = "nil"
    /\ sources' = Append(CloseSource(sources, connections[s].LogSource), NewSource)
    /\ connections' = [connections EXCEPT
           ![s].lastReconnectTime = 0,
           ![s].LogSource = Len(sources) + 1,
           ![s].Config = config,
           ![s].Connected = TRUE,
           ![s].LastUsed = 0,
           ![s].reconnectAttempts = @ + 1]
    /\ watchers' = Append(watchers, NewWatcher(s, "root"))
    /\ lastCall' = [lastCall EXCEPT ![s] = Result("connect", "nil", "reconnect", 0)]
    /\ UNCHANGED << rootCancelled, managerPc, arg, ret >>

\* Lines 93-133: the delay has passed, a new source is swapped in and watched.
Reconnect(s, config) ==
    /\ s \in DOMAIN connections
    /\ ~connections[s].Connected
    /\ ~(connections[s].lastReconnectTime
            < DelayTable[connections[s].reconnectAttempts])
    /\ Len(sources) < MaxSources
    /\ createLogSource(config).err = "nil"
    /\ LET old == connections[s].LogSource
           new == Len(sources) + 1
       IN  /\ sources' = Append(CloseSource(sources, old), NewSource)
           /\ connections' = [connections EXCEPT
                  ![s].lastReconnectTime = 0,
                  ![s].LogSource = new,
                  ![s].Config = config,
                  ![s].Connected = TRUE,
                  ![s].LastUsed = 0,
                  ![s].reconnectAttempts = 0]
           /\ watchers' = Append(watchers, NewWatcher(s, "root"))
    /\ lastCall' = [lastCall EXCEPT ![s] = Result("connect", "nil", "reconnect", 0)]
    /\ UNCHANGED << rootCancelled, managerPc, arg, ret >>

\* Variant: a connect to a connected record that starts one more watcher.
ConnectRefreshRestarts(s, config) ==
    /\ s \in DOMAIN connections
    /\ connections[s].Connected
    /\ connections' = [connections EXCEPT ![s].LastUsed = 0]
    /\ watchers' = [watchers EXCEPT ![connections[s].LogSource] =
                        NewWatcher(s, "root")]
    /\ lastCall' = [lastCall EXCEPT ![s] = Result("connect", "nil", "refresh", 0)]
    /\ UNCHANGED << sources, rootCancelled, managerPc, arg, ret >>

\* Variant: a connect to a connected record that stores the supplied config.
ConnectRefreshAppliesConfig(s, config) ==
    /\ s \in DOMAIN connections
    /\ connections[s].Connected
    /\ connections' = [connections EXCEPT ![s].LastUsed = 0,
                                          ![s].Config = config]
    /\ lastCall' = [lastCall EXCEPT ![s] = Result("connect", "nil", "refresh", 0)]
    /\ UNCHANGED << sources, watchers, rootCancelled, managerPc, arg, ret >>

\* Variant: the attempt is counted before Connected is looked at.
ConnectRefreshCounting(s, config) ==
    /\ s \in DOMAIN connections
    /\ connections[s].Connected
    /\ connections' = [connections EXCEPT
           ![s].LastUsed = 0,
           ![s].reconnectAttempts = Min(@ + 1, MaxAttempts),
           ![s].lastReconnectTime = 0]
    /\ lastCall' = [lastCall EXCEPT ![s] = Result("connect", "nil", "refresh", 0)]
    /\ UNCHANGED << sources, watchers, rootCancelled, managerPc, arg, ret >>

\* Lines 135-137: the record is connected.
ConnectRefresh(s, config) ==
    /\ s \in DOMAIN connections
    /\ connections[s].Connected
    /\ connections' = [connections EXCEPT ![s].LastUsed = 0]
    /\ lastCall' = [lastCall EXCEPT ![s] = Result("connect", "nil", "refresh", 0)]
    /\ UNCHANGED << sources, watchers, rootCancelled, managerPc, arg, ret >>

\* Lines 140-148: no record, createLogSource fails.
ConnectFailed(s, config) ==
    /\ s \notin DOMAIN connections
    /\ createLogSource(config).err # "nil"
    /\ lastCall' = [lastCall EXCEPT ![s] =
           Result("connect", "failed to create log source", "new", 0)]
    /\ UNCHANGED << connections, sources, watchers, rootCancelled, managerPc,
                    arg, ret >>

\* Variant: the record is made without looking for an existing one.
ConnectNewUnchecked(s, config) ==
    /\ Len(sources) < MaxSources
    /\ createLogSource(config).err = "nil"
    /\ sources' = Append(sources, NewSource)
    /\ connections' = Put(connections, s,
           [LogSource |-> Len(sources) + 1,
            Config |-> config,
            Connected |-> TRUE,
            LastUsed |-> 0,
            cancelCalls |-> 0,
            reconnectAttempts |-> 0,
            lastReconnectTime |-> ReconnectAgeCap(0)])
    /\ watchers' = Append(watchers, NewWatcher(s, "child"))
    /\ lastCall' = [lastCall EXCEPT ![s] = Result("connect", "nil", "new", 0)]
    /\ UNCHANGED << rootCancelled, managerPc, arg, ret >>

\* Lines 140-177: no record: a record, its context and its watcher are made.
ConnectNew(s, config) ==
    /\ s \notin DOMAIN connections
    /\ Len(sources) < MaxSources
    /\ createLogSource(config).err = "nil"
    /\ sources' = Append(sources, NewSource)
    /\ connections' = Put(connections, s,
           [LogSource |-> Len(sources) + 1,
            Config |-> config,
            Connected |-> TRUE,
            LastUsed |-> 0,
            cancelCalls |-> 0,
            reconnectAttempts |-> 0,
            lastReconnectTime |-> ReconnectAgeCap(0)])
    /\ watchers' = Append(watchers, NewWatcher(s, "child"))
    /\ lastCall' = [lastCall EXCEPT ![s] = Result("connect", "nil", "new", 0)]
    /\ UNCHANGED << rootCancelled, managerPc, arg, ret >>

\* limit bounds reconnectAttempts.
ConnectToServerUpTo(s, config, limit) ==
    \/ \E drift \in 0..ClockDrift : ConnectDelayed(s, config, drift)
    \/ ReconnectFailedUpTo(s, config, limit)
    \/ Reconnect(s, config)
    \/ ConnectRefresh(s, config)
    \/ ConnectFailed(s, config)
    \/ ConnectNew(s, config)

ConnectToServer(s, config) == ConnectToServerUpTo(s, config, MaxAttempts)

\* Variant: a disconnect that deletes the record from the registry.
DisconnectFromServerRemoving(s) ==
    /\ s \in DOMAIN connections
    /\ connections[s].Connected
    /\ connections' = [x \in DOMAIN connections \ {s} |-> connections[x]]
    /\ sources' = CloseSource(sources, connections[s].LogSource)
    /\ lastCall' = [lastCall EXCEPT ![s] = Result("disconnect", "nil", "none", 0)]
    /\ UNCHANGED << watchers, rootCancelled, managerPc, arg, ret >>

\* Variant: a disconnect that does not look at Connected.
DisconnectFromServerUnchecked(s) ==
    /\ s \in DOMAIN connections
    /\ connections' = [connections EXCEPT
           ![s].cancelCalls = Min(@ + 1, CountCap),
           ![s].Connected = FALSE]
    /\ sources' = CloseSource(sources, connections[s].LogSource)
    /\ lastCall' = [lastCall EXCEPT ![s] = Result("disconnect", "nil", "none", 0)]
    /\ UNCHANGED << watchers, rootCancelled, managerPc, arg, ret >>

(***************************************************************************)
(* DisconnectFromServer(serverID), one step under m.mu and conn.mu.        *)
(***************************************************************************)
DisconnectFromServer(s) ==
    /\ IF s \notin DOMAIN connections
       THEN /\ lastCall' = [lastCall EXCEPT ![s] =
                   Result("disconnect", "server log connection not found", "none", 0)]
            /\ UNCHANGED << connections, sources >>
       ELSE IF ~connections[s].Connected
       THEN /\ lastCall' = [lastCall EXCEPT ![s] =
                   Result("disconnect", "server log connection already disconnected",
                          "none", 0)]
            /\ UNCHANGED << connections, sources >>
       ELSE /\ connections' = [connections EXCEPT
                   ![s].cancelCalls = Min(@ + 1, CountCap),
                   ![s].Connected = FALSE]
            /\ sources' = CloseSource(sources, connections[s].LogSource)
            /\ lastCall' = [lastCall EXCEPT ![s] =
                   Result("disconnect", "nil", "none", 0)]
    /\ UNCHANGED << watchers, rootCancelled, managerPc, arg, ret >>

\* GetServerConnectionStatus(serverID): what the call returns in this state.
\* It is a snapshot read (m.mu.RLock, then conn.mu) and writes nothing.
GetServerConnectionStatus(s) ==
    IF s \notin DOMAIN connections
    THEN [err |-> "server connection not found"]
    ELSE [err |-> "nil",
          Connected |-> connections[s].Connected,
          Config |-> connections[s].Config,
          LastUsed |-> connections[s].LastUsed]

\* Shutdown(): m.cancel().
Shutdown ==
    /\ rootCancelled' = TRUE
    /\ UNCHANGED << connections, sources, watchers, managerPc, lastCall, arg, ret >>

RECURSIVE CloseAll(_, _)
CloseAll(srcs, ids) ==
    IF ids = {} THEN srcs
    ELSE LET i == CHOOSE x \in ids : TRUE
         IN  CloseAll(CloseSource(srcs, i), ids \ {i})

\* Variant: a cleanup that also empties the registry.
cleanupAllConnectionsRemoving ==
    /\ connections' = [s \in {} |-> 0]
    /\ sources' = CloseAll(sources,
           {connections[s].LogSource :
               s \in {x \in DOMAIN connections : connections[x].Connected}})

\* cleanupAllConnections(), under m.mu, each record under its conn.mu.
cleanupAllConnections ==
    /\ connections' =
           [s \in DOMAIN connections |->
               IF connections[s].Connected
               THEN [connections[s] EXCEPT
                        !.cancelCalls = Min(@ + 1, CountCap),
                        !.Connected = FALSE]
               ELSE connections[s]]
    /\ sources' = CloseAll(sources,
           {connections[s].LogSource :
               s \in {x \in DOMAIN connections : connections[x].Connected}})

\* StartConnectionManager(): waits for m.ctx.Done(), then cleans up.
StartConnectionManager ==
    /\ managerPc = "waiting"
    /\ rootCancelled
    /\ cleanupAllConnections
    /\ managerPc' = "stopped"
    /\ UNCHANGED << watchers, rootCancelled, lastCall, arg, ret >>


(***************************************************************************)
(* LogSource.  Its implementations are outside this translation unit; the  *)
(* contract used here: Watch may be called once per instance (a second     *)
(* call fails), Watch may fail, and the line channel is closed when the    *)
(* context is cancelled, the source is closed or the transport is lost.    *)
(***************************************************************************)
\* The line channel of sources[j] closes.
SourceChanClose(j) ==
    /\ j \in 1..Len(sources)
    /\ sources[j].chan = "open"
    /\ sources' = [sources EXCEPT ![j].chan = "closed"]
    /\ UNCHANGED << connections, watchers, rootCancelled, managerPc, lastCall, arg, ret >>

(***************************************************************************)
(* watchLogs(ctx, serverID, conn), one goroutine per entry of watchers.    *)
(***************************************************************************)
\* Lines 268-281: conn.LogSource.Watch(ctx).  conn.LogSource is read when the
\* goroutine runs, which may be after a reconnect has swapped the source.
WatcherStart(i, ok) ==
    /\ i \in 1..Len(watchers)
    /\ watchers[i].pc = "start"
    /\ LET w == watchers[i]
           j == connections[w.srv].LogSource
       IN  IF ok /\ ~sources[j].watched
           THEN /\ sources' = [sources EXCEPT ![j].watched = TRUE,
                                              ![j].chan = "open"]
                /\ watchers' = [watchers EXCEPT ![i].pc = "loop", ![i].src = j]
                /\ UNCHANGED connections
           ELSE /\ connections' = [connections EXCEPT ![w.srv].Connected = FALSE]
                /\ watchers' = [watchers EXCEPT ![i] = Return(@)]
                /\ UNCHANGED sources
    /\ UNCHANGED << rootCancelled, managerPc, lastCall, arg, ret >>

\* Lines 286-287: case <-ctx.Done(): return.
WatcherCtxDone(i) ==
    /\ i \in 1..Len(watchers)
    /\ watchers[i].pc = "loop"
    /\ CtxDone(watchers[i])
    /\ watchers' = [watchers EXCEPT ![i] = Return(@)]
    /\ UNCHANGED << connections, sources, rootCancelled, managerPc, lastCall, arg, ret >>

\* Variant: on a closed channel the watcher builds a new source itself and
\* goes on with it.
WatcherChanClosedRetries(i) ==
    /\ i \in 1..Len(watchers)
    /\ watchers[i].pc = "loop"
    /\ sources[watchers[i].src].chan = "closed"
    /\ IF Len(sources) < MaxSources
       THEN /\ sources' = Append(sources, NewSource)
            /\ connections' = [connections EXCEPT
                   ![watchers[i].srv].LogSource = Len(sources) + 1,
                   ![watchers[i].srv].lastReconnectTime = 0]
            /\ watchers' = [watchers EXCEPT ![i] = Return(@)]
                               \o << NewWatcher(watchers[i].srv, "root") >>
       ELSE /\ connections' = [connections EXCEPT
                   ![watchers[i].srv].Connected = FALSE]
            /\ watchers' = [watchers EXCEPT ![i] = Return(@)]
            /\ UNCHANGED sources
    /\ UNCHANGED << rootCancelled, managerPc, lastCall, arg, ret >>

\* Lines 288-299: the channel is closed: mark the record disconnected, return.
WatcherChanClosed(i) ==
    /\ i \in 1..Len(watchers)
    /\ watchers[i].pc = "loop"
    /\ sources[watchers[i].src].chan = "closed"
    /\ connections' = [connections EXCEPT ![watchers[i].srv].Connected = FALSE]
    /\ watchers' = [watchers EXCEPT ![i] = Return(@)]
    /\ UNCHANGED << sources, rootCancelled, managerPc, lastCall, arg, ret >>

\* Lines 301-313: a line is received and processed.
WatcherLine(i) ==
    /\ i \in 1..Len(watchers)
    /\ watchers[i].pc = "loop"
    /\ sources[watchers[i].src].chan = "open"
    /\ connections' = [connections EXCEPT ![watchers[i].srv].LastUsed = 0]
    /\ UNCHANGED << sources, watchers, rootCancelled, managerPc, lastCall, arg, ret >>

\* The clock advances by one tick.
Tick ==
    /\ connections' = Advance(connections, 1)
    /\ UNCHANGED << sources, watchers, rootCancelled, managerPc, lastCall, arg, ret >>

\* The server ids the callers of this specification use.
Servers == {"s1"}

Next ==
    \/ \E s \in Servers, config \in Configs : ConnectToServer(s, config)
    \/ \E s \in Servers : DisconnectFromServer(s)
    \/ Shutdown
    \/ StartConnectionManager
    \/ \E j \in 1..MaxSources : SourceChanClose(j)
    \/ \E i \in 1..MaxSources, ok \in BOOLEAN : WatcherStart(i, ok)
    \/ \E i \in 1..MaxSources : WatcherCtxDone(i)
    \/ \E i \in 1..MaxSources : WatcherChanClosed(i)
    \/ \E i \in 1..MaxSources : WatcherLine(i)
    \/ Tick

Spec == Init /\ [][Next]_vars

(***************************************************************************)
(* Restarts: connects with a config that is accepted or rejected and       *)
(* disconnects of one server, in any order, with watchers whose Watch may  *)
(* fail and sources whose channel may close.                               *)
(***************************************************************************)
NextRestart ==
    \/ \E config \in {SftpCfg, NoHostCfg} : ConnectToServer("s1", config)
    \/ DisconnectFromServer("s1")
    \/ \E j \in 1..MaxSources : SourceChanClose(j)
    \/ \E i \in 1..MaxSources, ok \in BOOLEAN : WatcherStart(i, ok)
    \/ \E i \in 1..MaxSources : WatcherCtxDone(i)
    \/ \E i \in 1..MaxSources : WatcherChanClosed(i)
    \/ \E i \in 1..MaxSources : WatcherLine(i)
    \/ Tick

SpecRestart == Init /\ [][NextRestart]_vars

(***************************************************************************)
(* Calls that arrive after Shutdown(): ConnectToServer and                 *)
(* DisconnectFromServer run only once m.ctx has been cancelled, before or  *)
(* after StartConnectionManager has cleaned up.                            *)
(***************************************************************************)
NextShut ==
    \/ Shutdown
    \/ StartConnectionManager
    \/ \E config \in {SftpCfg, NoHostCfg} :
           rootCancelled /\ ConnectToServer("s1", config)
    \/ rootCancelled /\ DisconnectFromServer("s1")
    \/ \E j \in 1..MaxSources : SourceChanClose(j)
    \/ \E i \in 1..MaxSources, ok \in BOOLEAN : WatcherStart(i, ok)
    \/ \E i \in 1..MaxSources : WatcherCtxDone(i)
    \/ \E i \in 1..MaxSources : WatcherChanClosed(i)
    \/ \E i \in 1..MaxSources : WatcherLine(i)
    \/ Tick

SpecShut == Init /\ [][NextShut]_vars

(***************************************************************************)
(* GetConnectionStats(), record by record.  The call holds m.mu.RLock      *)
(* from its first line to its return, so no ConnectToServer and no         *)
(* DisconnectFromServer runs meanwhile; a watchLogs goroutine takes only   *)
(* conn.mu and may run between two records.  arg is the position of the    *)
(* call: busy while it is in progress, todo the records the range has not  *)
(* yet visited.  ret holds the counters and, once done, the result.        *)
(***************************************************************************)
StatsIds == {"s1", "s2"}

StatsConfigs == {LocalCfg, SftpCfg}

\* The keys source_types can have: string(conn.Config.Type).
SourceTypes == {c.Type : c \in StatsConfigs}

RECURSIVE SumOf(_, _)
\* The sum of the counts of a map of counters over the keys ks.
SumOf(f, ks) ==
    IF ks = {} THEN 0
    ELSE LET k == CHOOSE x \in ks : TRUE
         IN  f[k] + SumOf(f, ks \ {k})

\* Lines 423-434: the read lock is taken, the counters start at zero.
StatsBegin ==
    /\ ~arg.busy
    /\ arg' = [busy |-> TRUE, todo |-> DOMAIN connections]
    /\ ret' = [done |-> FALSE, total |-> 0, connected |-> 0, disconnected |-> 0,
               sourceTypes |-> [t \in SourceTypes |-> 0], serverMetrics |-> {}]
    /\ UNCHANGED << connections, sources, watchers, rootCancelled, managerPc,
                    lastCall >>

\* Variant: the source type is counted in the connected branch only.
StatsVisitTypesOfConnected(s) ==
    /\ arg.busy
    /\ s \in arg.todo
    /\ arg' = [arg EXCEPT !.todo = @ \ {s}]
    /\ ret' = IF connections[s].Connected
              THEN [ret EXCEPT !.connected = @ + 1,
                               !.serverMetrics = @ \cup {s},
                               !.sourceTypes[connections[s].Config.Type] = @ + 1]
              ELSE [ret EXCEPT !.disconnected = @ + 1]
    /\ UNCHANGED << connections, sources, watchers, rootCancelled, managerPc,
                    lastCall >>

\* Lines 436-463: one iteration of the range, under the record's conn.mu.
\* Metrics is set by ConnectToServer (line 158) and never cleared.
StatsVisit(s) ==
    /\ arg.busy
    /\ s \in arg.todo
    /\ arg' = [arg EXCEPT !.todo = @ \ {s}]
    /\ ret' = IF connections[s].Connected
              THEN [ret EXCEPT !.connected = @ + 1,
                               !.serverMetrics = @ \cup {s},
                               !.sourceTypes[connections[s].Config.Type] = @ + 1]
              ELSE [ret EXCEPT !.disconnected = @ + 1,
                               !.sourceTypes[connections[s].Config.Type] = @ + 1]
    /\ UNCHANGED << connections, sources, watchers, rootCancelled, managerPc,
                    lastCall >>

\* Lines 465-482: the range is over; total_connections is len(m.connections).
StatsReturn ==
    /\ arg.busy
    /\ arg.todo = {}
    /\ arg' = [arg EXCEPT !.busy = FALSE]
    /\ ret' = [ret EXCEPT !.done = TRUE,
                          !.total = Cardinality(DOMAIN connections)]
    /\ UNCHANGED << connections, sources, watchers, rootCancelled, managerPc,
                    lastCall >>

InitStats ==
    /\ connections = [s \in {} |-> 0]
    /\ sources = << >>
    /\ watchers = << >>
    /\ rootCancelled = FALSE
    /\ managerPc = "waiting"
    /\ lastCall = [s \in ServerIDs |-> NoCall]
    /\ arg = [busy |-> FALSE, todo |-> {}]
    /\ ret = [done |-> FALSE, total |-> 0, connected |-> 0, disconnected |-> 0,
              sourceTypes |-> [t \in SourceTypes |-> 0], serverMetrics |-> {}]

NextStats ==
    \/ \E s \in StatsIds, config \in StatsConfigs :
           ~arg.busy /\ ConnectNew(s, config)
    \/ \E s \in StatsIds : ~arg.busy /\ DisconnectFromServer(s)
    \/ \E i \in 1..MaxSources, ok \in BOOLEAN : WatcherStart(i, ok)
    \/ StatsBegin
    \/ \E s \in StatsIds : StatsVisit(s)
    \/ StatsReturn

SpecStats == InitStats /\ [][NextStats]_vars

(***************************************************************************)
(* The backoff over a long run of failed reconnects: one server, attempt   *)
(* counts up to MaxAttemptsArg.                                            *)
(***************************************************************************)
NextBackoff ==
    \/ \E config \in {SftpCfg, NoHostCfg} :
           ConnectToServerUpTo("s1", config, MaxAttemptsArg)
    \/ \E i \in 1..MaxSources, ok \in BOOLEAN : WatcherStart(i, ok)
    \/ Tick

SpecBackoff == Init /\ [][NextBackoff]_vars

(***************************************************************************)
(* calculateReconnectDelay on its own: any attempt count, one evaluation.  *)
(***************************************************************************)
InitDelay ==
    /\ connections = [s \in {} |-> 0]
    /\ sources = << >>
    /\ watchers = << >>
    /\ rootCancelled = FALSE
    /\ managerPc = "waiting"
    /\ lastCall = [s \in ServerIDs |-> NoCall]
    /\ arg \in 0..MaxAttemptsArg
    /\ ret = << >>

CalcDelay ==
    /\ ret = << >>
    /\ ret' = calculateReconnectDelay(arg)
    /\ UNCHANGED << connections, sources, watchers, rootCancelled, managerPc,
                    lastCall, arg >>

NextDelay == CalcDelay

SpecDelay == InitDelay /\ [][NextDelay]_vars


(***************************************************************************)
(* ConnectToServer for an id the registry does not know, with any config.  *)
(***************************************************************************)
InitConfig ==
    /\ connections = [s \in {} |-> 0]
    /\ sources = << >>
    /\ watchers = << >>
    /\ rootCancelled = FALSE
    /\ managerPc = "waiting"
    /\ lastCall = [s \in ServerIDs |-> NoCall]
    /\ arg \in AllConfigs
    /\ ret = << >>

NextConfig ==
    \/ ConnectFailed("s1", arg)
    \/ ConnectNew("s1", arg)

SpecConfig == InitConfig /\ [][NextConfig]_vars

(***************************************************************************)
(* ConnectToAllServers(ctx, db) on a manager without records, the query    *)
(* succeeding.  arg is the servers table in the order the query returns    *)
(* it: one row per server id; a column is Null or a value; scanOK says     *)
(* whether rows.Scan succeeds on the row.  The username and password       *)
(* columns are set in every row.                                           *)
(***************************************************************************)
Null == "<null>"

RowIds == << "s1", "s2", "s3" >>

Rows(k) ==
    [id : {RowIds[k]}, Type : {Null, "local", "sftp"},
     FilePath : {Null, "", "/sq.log"}, Host : {Null, "h"}, scanOK : BOOLEAN]

\* Line 345: the WHERE clause of the query.
Selected(row) ==
    row.Type # Null /\ row.FilePath # Null /\ row.FilePath # ""

\* Lines 362-371: the loop body goes on to ConnectToServer for this row.
Callable(row) == Selected(row) /\ row.scanOK

\* Lines 374-397: the config built from a row.
ConfigOf(row) ==
    [Type |-> row.Type, FilePath |-> row.FilePath,
     Host |-> IF row.Host = Null THEN "" ELSE row.Host, Port |-> 0,
     Username |-> "u", Password |-> "p", PollFrequency |-> 0]

\* The rows the loop has not called ConnectToServer for yet.
Pending(catalog) ==
    {k \in 1..Len(catalog) :
        Callable(catalog[k]) /\ lastCall[catalog[k].id] = NoCall}

\* Variant: the loop ends at the first ConnectToServer that fails.
NextRowStopping(catalog) ==
    IF Pending(catalog) = {}
          \/ \E k \in 1..Len(catalog) : lastCall[catalog[k].id].err # "nil"
    THEN 0
    ELSE CHOOSE k \in Pending(catalog) : \A j \in Pending(catalog) : k <= j

\* Lines 354-414: the row of the next ConnectToServer call, 0 when the loop is
\* over.  Rows the query leaves out, and rows whose Scan fails (continue, line
\* 365), are passed over; so is a row whose ConnectToServer failed (line 407).
NextRow(catalog) ==
    IF Pending(catalog) = {} THEN 0
    ELSE CHOOSE k \in Pending(catalog) : \A j \in Pending(catalog) : k <= j

\* Line 400: m.ConnectToServer(id, config) for row k.
ConnectAllRow(k) ==
    /\ k = NextRow(arg)
    /\ \/ ConnectFailed(arg[k].id, ConfigOf(arg[k]))
       \/ ConnectNew(arg[k].id, ConfigOf(arg[k]))

InitAll ==
    /\ connections = [s \in {} |-> 0]
    /\ sources = << >>
    /\ watchers = << >>
    /\ rootCancelled = FALSE
    /\ managerPc = "waiting"
    /\ lastCall = [s \in ServerIDs |-> NoCall]
    /\ arg \in [1..MaxRows -> UNION {Rows(k) : k \in 1..MaxRows}]
    /\ \A k \in 1..MaxRows : arg[k] \in Rows(k)
    /\ ret = << >>

NextAll == \E k \in 1..MaxRows : ConnectAllRow(k)

SpecAll == InitAll /\ [][NextAll]_vars

(***************************************************************************)
(* ServerUpdate of the server API (servers.go): the part after the server  *)
(* has been stored.  A stored server has its log columns Null or set; the  *)
(* handler lets through a log source type that is local, sftp or ftp and   *)
(* stores an empty one as Null.  The errors of the manager calls are       *)
(* dropped by the handler; lastCall keeps them.                            *)
(***************************************************************************)
StoredServers ==
    [LogSourceType : {Null, "sftp"}, LogFilePath : {Null, "/sq.log"},
     LogHost : {Null, "h"}, LogUsername : {"u"}, LogPassword : {"p"}]

\* Lines 835-859: the config built from the stored server.
UpdateConfig(server) ==
    [Type |-> server.LogSourceType, FilePath |-> server.LogFilePath,
     Host |-> IF server.LogHost = Null THEN "" ELSE server.LogHost,
     Port |-> 0,
     Username |-> IF server.LogUsername = Null THEN "" ELSE server.LogUsername,
     Password |-> IF server.LogPassword = Null THEN "" ELSE server.LogPassword,
     PollFrequency |-> 0]

\* Variant: one of the two columns is enough for a connect.
ServerUpdateEitherColumn(s, server) ==
    IF server.LogSourceType # Null \/ server.LogFilePath # Null
    THEN ConnectToServer(s, UpdateConfig(server))
    ELSE DisconnectFromServer(s)

\* Lines 834-865: the manager call ServerUpdate makes for server id s.
ServerUpdate(s, server) ==
    IF server.LogSourceType # Null /\ server.LogFilePath # Null
    THEN ConnectToServer(s, UpdateConfig(server))
    ELSE DisconnectFromServer(s)

NextUpdate ==
    \/ \E server \in StoredServers : ServerUpdate("s1", server)
    \/ \E i \in 1..MaxSources, ok \in BOOLEAN : WatcherStart(i, ok)
    \/ \E i \in 1..MaxSources : WatcherCtxDone(i)
    \/ Tick

SpecUpdate == Init /\ [][NextUpdate]_vars

(***************************************************************************)
(* ServerDelete of the server API (servers.go).  arg is the set of server  *)
(* ids whose row has been deleted from the servers table; ServerUpdate and *)
(* ServerDelete answer "Server not found" for such an id and call nothing. *)
(***************************************************************************)
\* Lines 580-706: the handler deletes the rows of the server and calls
\* RconManager.DisconnectFromServer (line 658); it makes no call to the
\* LogwatcherManager.
ServerDelete(s) ==
    /\ s \notin arg
    /\ arg' = arg \cup {s}
    /\ UNCHANGED << connections, sources, watchers, rootCancelled, managerPc,
                    lastCall, ret >>

InitDelete ==
    /\ connections = [s \in {} |-> 0]
    /\ sources = << >>
    /\ watchers = << >>
    /\ rootCancelled = FALSE
    /\ managerPc = "waiting"
    /\ lastCall = [s \in ServerIDs |-> NoCall]
    /\ arg = {}
    /\ ret = << >>

NextDelete ==
    \/ \E server \in StoredServers : "s1" \notin arg /\ ServerUpdate("s1", server)
    \/ ServerDelete("s1")
    \/ \E j \in 1..MaxSources : SourceChanClose(j)
    \/ \E i \in 1..MaxSources, ok \in BOOLEAN : WatcherStart(i, ok)
    \/ \E i \in 1..MaxSources : WatcherCtxDone(i)
    \/ \E i \in 1..MaxSources : WatcherChanClosed(i)
    \/ \E i \in 1..MaxSources : WatcherLine(i)
    \/ Tick

SpecDelete == InitDelete /\ [][NextDelete]_vars

(***************************************************************************)
(* The log-transport status probe of the server API (servers.go).  arg is  *)
(* the request: the server row (columns Null or a string, possibly blank   *)
(* or in upper case), whether log_probe was requested, and what the probed *)
(* transport answers: whether the path is a directory, and the error it   *)
(* gives, as the set of the keywords of mapProbeErrorReason that the error *)
(* text contains (NilErr for no error).                                    *)
(***************************************************************************)
Keywords ==
    {"permission", "denied", "auth", "login", "password", "no such file",
     "not found", "cannot find", "timeout", "deadline exceeded", "refused",
     "unreachable", "reset"}

NilErr == {"<nil>"}

ErrTexts ==
    {{}} \cup {{k} : k \in Keywords}
         \cup {{"denied", "timeout"}, {"not found", "refused"}}

ProbeRequests ==
    [LogSourceType : {Null, " ", "local", "SFTP", "sftp", "ftp", "http"},
     LogFilePath : {Null, " ", "/sq.log"},
     LogHost : {Null, "h"}, LogUsername : {"u"}, LogPassword : {" ", "p"},
     includeLogProbe : BOOLEAN,
     answer : {[isDir |-> d, err |-> e] :
                  d \in BOOLEAN, e \in {NilErr} \cup ErrTexts}]

\* strings.TrimSpace(*value), "" for nil.
trimmedStringPtr(value) == IF value \in {Null, " "} THEN "" ELSE value

\* strings.ToLower on the type names in use.
ToLower(str) == IF str = "SFTP" THEN "sftp" ELSE str

\* Variant: an error text without a keyword is passed on as it is.
mapProbeErrorReasonRaw(err) ==
    CASE err \cap {"permission", "denied"} # {} -> "permission_denied"
      [] err \cap {"auth", "login", "password"} # {} -> "authentication_failed"
      [] err \cap {"no such file", "not found", "cannot find"} # {} ->
             "log_file_not_found"
      [] err \cap {"timeout", "deadline exceeded"} # {} -> "timeout"
      [] err \cap {"refused", "unreachable", "reset"} # {} -> "connection_failed"
      [] OTHER -> "unexpected EOF"

\* mapProbeErrorReason(err), err not nil: the first case that matches.
mapProbeErrorReason(err) ==
    CASE err \cap {"permission", "denied"} # {} -> "permission_denied"
      [] err \cap {"auth", "login", "password"} # {} -> "authentication_failed"
      [] err \cap {"no such file", "not found", "cannot find"} # {} ->
             "log_file_not_found"
      [] err \cap {"timeout", "deadline exceeded"} # {} -> "timeout"
      [] err \cap {"refused", "unreachable", "reset"} # {} -> "connection_failed"
      [] OTHER -> "probe_failed"

buildBaseLogTransportStatus(server) ==
    IF trimmedStringPtr(server.LogSourceType) = ""
          \/ trimmedStringPtr(server.LogFilePath) = ""
    THEN [Enabled |-> FALSE, SourceType |-> "", Healthy |-> FALSE,
          Reason |-> "not_configured"]
    ELSE [Enabled |-> TRUE,
          SourceType |-> ToLower(trimmedStringPtr(server.LogSourceType)),
          Healthy |-> FALSE, Reason |-> ""]

Probed(status, err) ==
    IF err = NilErr THEN [status EXCEPT !.Healthy = TRUE, !.Reason = ""]
    ELSE [status EXCEPT !.Healthy = FALSE,
                        !.Reason = mapProbeErrorReason(err)]

probeLocalLogTransport(status, answer) ==
    IF answer.err = NilErr /\ answer.isDir
    THEN [status EXCEPT !.Healthy = FALSE, !.Reason = "log_path_is_directory"]
    ELSE Probed(status, answer.err)

\* Variant: missing credentials leave Healthy as the manager reported it.
probeRemoteLogTransportKeeping(proto, server, status, answer) ==
    IF trimmedStringPtr(server.LogHost) = ""
          \/ trimmedStringPtr(server.LogUsername) = ""
          \/ trimmedStringPtr(server.LogPassword) = ""
    THEN [status EXCEPT !.Reason = "missing_" \o proto \o "_credentials"]
    ELSE Probed(status, answer.err)

\* probeSFTPLogTransport / probeFTPLogTransport; proto is "sftp" or "ftp".  A
\* remote Stat / FileSize does not tell a directory from a file.
probeRemoteLogTransport(proto, server, status, answer) ==
    IF trimmedStringPtr(server.LogHost) = ""
          \/ trimmedStringPtr(server.LogUsername) = ""
          \/ trimmedStringPtr(server.LogPassword) = ""
    THEN [status EXCEPT !.Healthy = FALSE,
                        !.Reason = "missing_" \o proto \o "_credentials"]
    ELSE Probed(status, answer.err)

\* Variant: the manager is not asked for the connection status.
testLogTransportFunctionalityUnasked(s, server, includeLogProbe, answer) ==
    LET base == buildBaseLogTransportStatus(server)
        seen == base
    IN  IF ~base.Enabled THEN base
        ELSE IF ~includeLogProbe
        THEN IF ~seen.Healthy /\ seen.Reason = ""
             THEN [seen EXCEPT !.Reason = "probe_not_requested"]
             ELSE seen
        ELSE CASE seen.SourceType = "local" ->
                      probeLocalLogTransport(seen, answer)
               [] seen.SourceType = "sftp" ->
                      probeRemoteLogTransport("sftp", server, seen, answer)
               [] seen.SourceType = "ftp" ->
                      probeRemoteLogTransport("ftp", server, seen, answer)
               [] OTHER ->
                      [seen EXCEPT !.Healthy = FALSE,
                                   !.Reason = "unsupported_source_type"]

\* testLogTransportFunctionality(server, includeLogProbe) for server id s:
\* the status it returns in this state.
testLogTransportFunctionality(s, server, includeLogProbe, answer) ==
    LET base == buildBaseLogTransportStatus(server)
        conn == GetServerConnectionStatus(s)
        seen ==
            IF conn.err # "nil" THEN base
            ELSE [base EXCEPT
                     !.Healthy = conn.Connected,
                     !.Reason = IF ~conn.Connected /\ ~includeLogProbe
                                THEN "logwatcher_disconnected" ELSE ""]
    IN  IF ~base.Enabled THEN base
        ELSE IF ~includeLogProbe
        THEN IF ~seen.Healthy /\ seen.Reason = ""
             THEN [seen EXCEPT !.Reason = "probe_not_requested"]
             ELSE seen
        ELSE CASE seen.SourceType = "local" ->
                      probeLocalLogTransport(seen, answer)
               [] seen.SourceType = "sftp" ->
                      probeRemoteLogTransport("sftp", server, seen, answer)
               [] seen.SourceType = "ftp" ->
                      probeRemoteLogTransport("ftp", server, seen, answer)
               [] OTHER ->
                      [seen EXCEPT !.Healthy = FALSE,
                                   !.Reason = "unsupported_source_type"]

\* Variant: a failed probe marks the record disconnected.
TestLogTransportMarking(s) ==
    /\ ret' = testLogTransportFunctionality(s, arg, arg.includeLogProbe, arg.answer)
    /\ connections' =
           IF s \in DOMAIN connections /\ ~ret'.Healthy
           THEN [connections EXCEPT ![s].Connected = FALSE]
           ELSE connections
    /\ UNCHANGED << sources, watchers, rootCancelled, managerPc, lastCall, arg >>

\* One status request for server s: the manager is only read.
TestLogTransport(s) ==
    /\ ret' = testLogTransportFunctionality(s, arg, arg.includeLogProbe, arg.answer)
    /\ UNCHANGED << connections, sources, watchers, rootCancelled, managerPc,
                    lastCall, arg >>

InitProbe ==
    /\ connections = [s \in {} |-> 0]
    /\ sources = << >>
    /\ watchers = << >>
    /\ rootCancelled = FALSE
    /\ managerPc = "waiting"
    /\ lastCall = [s \in ServerIDs |-> NoCall]
    /\ arg \in ProbeRequests
    /\ ret = << >>

NextProbe ==
    \/ ConnectNew("s1", SftpCfg)
    \/ DisconnectFromServer("s1")
    \/ TestLogTransport("s1")

SpecProbe == InitProbe /\ [][NextProbe]_vars

(***************************************************************************)
(* Concurrent callers of ConnectToServer.  Every call takes m.mu at line   *)
(* 69 and releases it when it returns (line 70), so calls made at the same *)
(* time run one after the other in some order: any number of calls, for    *)
(* the ids of CallerIds and any of Configs, in any order, while the        *)
(* watchers run and the sources stay healthy.                              *)
(***************************************************************************)
CallerIds == {"s1", "s2"}

NextCallers ==
    \/ \E s \in CallerIds, config \in Configs : ConnectFailed(s, config)
    \/ \E s \in CallerIds, config \in Configs : ConnectNew(s, config)
    \/ \E s \in CallerIds, config \in Configs : ConnectRefresh(s, config)
    \/ \E i \in 1..MaxSources : WatcherStart(i, TRUE)
    \/ \E i \in 1..MaxSources : WatcherLine(i)
    \/ Tick

SpecCallers == Init /\ [][NextCallers]_vars

(***************************************************************************)
(* The line loop of watchLogs, line by line, for the first Log Source.     *)
(* arg is that source's side of the line channel: chan is the lines sent   *)
(* and not yet received (a bounded buffer of ChanCap lines), next the      *)
(* index of the line it sends next.  ret is the watcher's side: handed is  *)
(* the lines passed to ProcessLogForEventsWithMetrics, in the order of the *)
(* calls, and done counts the calls that have returned.                    *)
(***************************************************************************)
LineSource == 1

\* The call at lines 308-312 has not returned yet.
Processing == ret.done < Len(ret.handed)

\* The source sends its next line; it blocks while the buffer is full, and
\* sends nothing once it is closed or the context given to Watch is cancelled.
SourceEmit ==
    /\ LineSource \in 1..Len(sources)
    /\ sources[LineSource].chan = "open"
    /\ sources[LineSource].closeCalls = 0
    /\ \A i \in 1..Len(watchers) :
          watchers[i].src = LineSource => ~CtxDone(watchers[i])
    /\ arg.next <= MaxLines
    /\ Len(arg.chan) < ChanCap
    /\ arg' = [chan |-> Append(arg.chan, arg.next), next |-> arg.next + 1]
    /\ UNCHANGED << connections, sources, watchers, rootCancelled, managerPc,
                    lastCall, ret >>

\* Variant: the line is processed in a goroutine of its own and the loop
\* goes on to the next receive.
LoopLineDetached(i) ==
    /\ i \in 1..Len(watchers)
    /\ watchers[i].pc = "loop"
    /\ watchers[i].src = LineSource
    /\ arg.chan # << >>
    /\ connections' = [connections EXCEPT ![watchers[i].srv].LastUsed = 0]
    /\ arg' = [arg EXCEPT !.chan = Tail(@)]
    /\ ret' = [ret EXCEPT !.handed = Append(@, Head(arg.chan))]
    /\ UNCHANGED << sources, watchers, rootCancelled, managerPc, lastCall >>

\* Lines 288, 301-312: the select receives the line at the head of the
\* channel (a closed channel still delivers what it holds; when ctx.Done() is
\* closed too the select takes either case), sets LastUsed and calls
\* ProcessLogForEventsWithMetrics with it.
LoopLine(i) ==
    /\ i \in 1..Len(watchers)
    /\ watchers[i].pc = "loop"
    /\ watchers[i].src = LineSource
    /\ ~Processing
    /\ arg.chan # << >>
    /\ connections' = [connections EXCEPT ![watchers[i].srv].LastUsed = 0]
    /\ arg' = [arg EXCEPT !.chan = Tail(@)]
    /\ ret' = [ret EXCEPT !.handed = Append(@, Head(arg.chan))]
    /\ UNCHANGED << sources, watchers, rootCancelled, managerPc, lastCall >>

\* Lines 308-312: ProcessLogForEventsWithMetrics returns; the loop goes back
\* to the select.
LoopProcessed ==
    /\ Processing
    /\ ret' = [ret EXCEPT !.done = @ + 1]
    /\ UNCHANGED << connections, sources, watchers, rootCancelled, managerPc,
                    lastCall, arg >>

\* Lines 286-287, reached from the select only.
LoopCtxDone(i) == ~Processing /\ WatcherCtxDone(i)

\* Lines 288-299: the receive reports the channel closed once it is empty.
LoopChanClosed(i) == ~Processing /\ arg.chan = << >> /\ WatcherChanClosed(i)

InitLines ==
    /\ connections = [s \in {} |-> 0]
    /\ sources = << >>
    /\ watchers = << >>
    /\ rootCancelled = FALSE
    /\ managerPc = "waiting"
    /\ lastCall = [s \in ServerIDs |-> NoCall]
    /\ arg = [chan |-> << >>, next |-> 1]
    /\ ret = [handed |-> << >>, done |-> 0]

NextLines ==
    \/ ConnectNew("s1", SftpCfg)
    \/ DisconnectFromServer("s1")
    \/ Shutdown
    \/ StartConnectionManager
    \/ WatcherStart(LineSource, TRUE)
    \/ SourceEmit
    \/ SourceChanClose(LineSource)
    \/ LoopLine(LineSource)
    \/ LoopProcessed
    \/ LoopCtxDone(LineSource)
    \/ LoopChanClosed(LineSource)

SpecLines == InitLines /\ [][NextLines]_vars

(***************************************************************************)
(* The manager and its watchers under fair scheduling of the goroutines:   *)
(* a watchLogs goroutine that can take a step eventually takes one, and a  *)
(* select whose ctx.Done() case stays ready eventually takes that case.    *)
(* The callers are under no obligation; they pass a config createLogSource *)
(* accepts, so reconnectAttempts stays 0 and the backoff gate stays open.  *)
(***************************************************************************)
NextDrain ==
    \/ \E s \in Servers : ConnectNew(s, SftpCfg)
    \/ \E s \in Servers : Reconnect(s, SftpCfg)
    \/ \E s \in Servers : ConnectRefresh(s, SftpCfg)
    \/ \E s \in Servers : DisconnectFromServer(s)
    \/ Shutdown
    \/ StartConnectionManager
    \/ \E j \in 1..MaxSources : SourceChanClose(j)
    \/ \E i \in 1..MaxSources, ok \in BOOLEAN : WatcherStart(i, ok)
    \/ \E i \in 1..MaxSources : WatcherCtxDone(i)
    \/ \E i \in 1..MaxSources : WatcherChanClosed(i)
    \/ \E i \in 1..MaxSources : WatcherLine(i)

WatcherFairness ==
    \A i \in 1..MaxSources :
        /\ WF_vars(\E ok \in BOOLEAN : WatcherStart(i, ok))
        /\ WF_vars(WatcherCtxDone(i))

SpecDrain == Init /\ [][NextDrain]_vars /\ WatcherFairness

(***************************************************************************)
(* The two locks: m.mu (a sync.RWMutex over the registry) and conn.mu (a   *)
(* sync.Mutex in each record), as the tasks of Tasks take and release them.*)
(* arg[t] is task t: prog is what is left of the operation it runs, as the *)
(* list of its lock steps, and held the locks it holds, in the order it    *)
(* took them.  ret is the locks: w the holder of m.mu for writing, ww the  *)
(* tasks blocked in m.mu.Lock(), r the holders of m.mu for reading, c the  *)
(* holder of each conn.mu.  A sync.RWMutex lets no new reader in while a   *)
(* writer holds it or is blocked in Lock.  The bodies of the operations    *)
(* change fields of records; of these the locks only see whether a record  *)
(* exists, so a body is kept only where it adds the record.                *)
(***************************************************************************)
Tasks == {"t1", "t2", "t3"}

LockIds == {"s1", "s2"}

Free == "none"

I(k, id) == [k |-> k, id |-> id]

\* The orders in which a range over m.connections can visit the records.
RangeOrders ==
    LET ids == DOMAIN connections \cap LockIds
    IN  {o \in UNION {[1..n -> ids] : n \in {Cardinality(ids)}} :
            \A a, b \in 1..Cardinality(ids) : a # b => o[a] # o[b]}

RECURSIVE EachRecord(_)
EachRecord(order) ==
    IF order = << >> THEN << >>
    ELSE << I("CLock", Head(order)), I("CUnlock", Head(order)) >>
             \o EachRecord(Tail(order))

\* Variant: the watcher reads the registry under m.mu.RLock() while it holds
\* conn.mu.
watchLogsLocksRegistry(id) ==
    << I("CLock", id), I("RLock", id), I("RUnlock", id), I("CUnlock", id) >>

\* watchLogs, lines 276-279, 295-297 and 302-304: conn.mu alone.
watchLogsLocks(id) == << I("CLock", id), I("CUnlock", id) >>

\* The lock steps of an operation from its call to the lookup in the map.
Entry(op, id) ==
    CASE op \in {"ConnectToServer", "DisconnectFromServer",
                 "cleanupAllConnections"} ->
             << I("Lock", id), I(op, id) >>
      [] op \in {"GetConnectionStats", "GetServerMetrics",
                 "GetServerConnectionStatus"} ->
             << I("RLock", id), I(op, id) >>
      [] op = "watchLogs" -> watchLogsLocks(id)

Ops ==
    {"ConnectToServer", "DisconnectFromServer", "cleanupAllConnections",
     "GetConnectionStats", "GetServerMetrics", "GetServerConnectionStatus",
     "watchLogs"}

\* What a range over the records does with each: lock it, close its source
\* if closing is set and the record is connected, unlock it.
RECURSIVE EachRecordClosing(_)
EachRecordClosing(order) ==
    IF order = << >> THEN {<< >>}
    ELSE {<< I("CLock", Head(order)) >> \o io \o << I("CUnlock", Head(order)) >>
              \o rest :
            io \in {<< >>, << I("Close", Head(order)) >>},
            rest \in EachRecordClosing(Tail(order))}

\* The lock steps of an operation after the lookup, which it makes holding
\* m.mu: the set of the ways it can go on (which one depends on the fields
\* of the record and on createLogSource).  createLogSource and Close are
\* the calls into the Log Source.
Rest(op, id) ==
    LET exists == id \in DOMAIN connections
    IN  CASE op = "ConnectToServer" ->
                 IF exists
                 THEN {<< I("CLock", id), I("CUnlock", id), I("Unlock", id) >>,
                       << I("CLock", id), I("createLogSource", id),
                          I("CUnlock", id), I("Unlock", id) >>,
                       << I("CLock", id), I("createLogSource", id),
                          I("Close", id), I("CUnlock", id), I("Unlock", id) >>}
                 ELSE {<< I("createLogSource", id), I("Make", id),
                          I("Unlock", id) >>,
                       << I("createLogSource", id), I("Unlock", id) >>}
          [] op = "DisconnectFromServer" ->
                 IF exists
                 THEN {<< I("CLock", id), I("CUnlock", id), I("Unlock", id) >>,
                       << I("CLock", id), I("Close", id), I("CUnlock", id),
                          I("Unlock", id) >>}
                 ELSE {<< I("Unlock", id) >>}
          [] op = "GetServerMetrics" ->
                 IF exists
                 THEN {<< I("CLock", id), I("CUnlock", id), I("RUnlock", id) >>}
                 ELSE {<< I("RUnlock", id) >>}
          [] op = "GetServerConnectionStatus" ->
                 IF exists
                 THEN {<< I("RUnlock", id), I("CLock", id), I("CUnlock", id) >>}
                 ELSE {<< I("RUnlock", id) >>}
          [] op = "GetConnectionStats" ->
                 {EachRecord(o) \o << I("RUnlock", id) >> : o \in RangeOrders}
          [] op = "cleanupAllConnections" ->
                 {body \o << I("Unlock", id) >> :
                     body \in UNION {EachRecordClosing(o) : o \in RangeOrders}}

Idle(t) == arg[t].prog = << >>

Step(t) == Head(arg[t].prog)

\* Task t has reached a step that can be taken now.
CanStep(t) ==
    /\ ~Idle(t)
    /\ CASE Step(t).k = "Lock" ->
                t \in ret.ww => (ret.w = Free /\ ret.r = {})
         [] Step(t).k = "RLock" -> ret.w = Free /\ ret.ww = {}
         [] Step(t).k = "CLock" -> ret.c[Step(t).id] = Free
         [] OTHER -> TRUE

Advance1(t, prog, held) ==
    arg' = [arg EXCEPT ![t] = [prog |-> prog, held |-> held]]

\* A task starts an operation; a watcher exists only for a record, and the
\* operations over all records take no id (it is fixed here).
Call(t, op, id) ==
    /\ Idle(t)
    /\ op = "watchLogs" => id \in DOMAIN connections
    /\ op \in {"GetConnectionStats", "cleanupAllConnections"} => id = "s1"
    /\ Advance1(t, Entry(op, id), << >>)
    /\ UNCHANGED << connections, sources, watchers, rootCancelled, managerPc,
                    lastCall, ret >>

\* m.mu.Lock(): the task blocks until no reader and no writer holds m.mu.
LockM(t) ==
    /\ CanStep(t)
    /\ Step(t).k = "Lock"
    /\ IF t \notin ret.ww
       THEN /\ ret' = [ret EXCEPT !.ww = @ \cup {t}]
            /\ UNCHANGED arg
       ELSE /\ ret' = [ret EXCEPT !.ww = @ \ {t}, !.w = t]
            /\ Advance1(t, Tail(arg[t].prog), Append(arg[t].held, "m.mu"))
    /\ UNCHANGED << connections, sources, watchers, rootCancelled, managerPc,
                    lastCall >>

\* m.mu.RLock().
RLockM(t) ==
    /\ CanStep(t)
    /\ Step(t).k = "RLock"
    /\ ret' = [ret EXCEPT !.r = @ \cup {t}]
    /\ Advance1(t, Tail(arg[t].prog), Append(arg[t].held, "m.mu"))
    /\ UNCHANGED << connections, sources, watchers, rootCancelled, managerPc,
                    lastCall >>

\* conn, exists := m.connections[serverID], or the range over the map.
Lookup(t) ==
    /\ CanStep(t)
    /\ Step(t).k \in Ops
    /\ \E rest \in Rest(Step(t).k, Step(t).id) :
          Advance1(t, rest, arg[t].held)
    /\ UNCHANGED << connections, sources, watchers, rootCancelled, managerPc,
                    lastCall, ret >>

\* conn.mu.Lock().
LockC(t) ==
    /\ CanStep(t)
    /\ Step(t).k = "CLock"
    /\ ret' = [ret EXCEPT !.c[Step(t).id] = t]
    /\ Advance1(t, Tail(arg[t].prog), Append(arg[t].held, "conn.mu"))
    /\ UNCHANGED << connections, sources, watchers, rootCancelled, managerPc,
                    lastCall >>

\* Lines 150-172 under m.mu: the record is made and put into the map.
Make(t) ==
    /\ CanStep(t)
    /\ Step(t).k = "Make"
    /\ Len(sources) < MaxSources
    /\ sources' = Append(sources, NewSource)
    /\ connections' = Put(connections, Step(t).id,
           [LogSource |-> Len(sources) + 1,
            Config |-> SftpCfg,
            Connected |-> TRUE,
            LastUsed |-> 0,
            cancelCalls |-> 0,
            reconnectAttempts |-> 0,
            lastReconnectTime |-> ReconnectAgeCap(0)])
    /\ watchers' = Append(watchers, NewWatcher(Step(t).id, "child"))
    /\ Advance1(t, Tail(arg[t].prog), arg[t].held)
    /\ UNCHANGED << rootCancelled, managerPc, lastCall, ret >>

\* createLogSource(config) or conn.LogSource.Close() returns.
SourceCall(t) ==
    /\ CanStep(t)
    /\ Step(t).k \in {"createLogSource", "Close"}
    /\ Advance1(t, Tail(arg[t].prog), arg[t].held)
    /\ UNCHANGED << connections, sources, watchers, rootCancelled, managerPc,
                    lastCall, ret >>

Without(held, lock) ==
    SelectSeq(held, LAMBDA h : h # lock)

\* conn.mu.Unlock(), m.mu.Unlock(), m.mu.RUnlock().
Release(t) ==
    /\ CanStep(t)
    /\ Step(t).k \in {"CUnlock", "Unlock", "RUnlock"}
    /\ CASE Step(t).k = "CUnlock" ->
                /\ ret' = [ret EXCEPT !.c[Step(t).id] = Free]
                /\ Advance1(t, Tail(arg[t].prog), Without(arg[t].held, "conn.mu"))
         [] Step(t).k = "Unlock" ->
                /\ ret' = [ret EXCEPT !.w = Free]
                /\ Advance1(t, Tail(arg[t].prog), Without(arg[t].held, "m.mu"))
         [] Step(t).k = "RUnlock" ->
                /\ ret' = [ret EXCEPT !.r = @ \ {t}]
                /\ Advance1(t, Tail(arg[t].prog), Without(arg[t].held, "m.mu"))
    /\ UNCHANGED << connections, sources, watchers, rootCancelled, managerPc,
                    lastCall >>

InitLocks ==
    /\ connections = [s \in {} |-> 0]
    /\ sources = << >>
    /\ watchers = << >>
    /\ rootCancelled = FALSE
    /\ managerPc = "waiting"
    /\ lastCall = [s \in ServerIDs |-> NoCall]
    /\ arg = [t \in Tasks |-> [prog |-> << >>, held |-> << >>]]
    /\ ret = [w |-> Free, ww |-> {}, r |-> {}, c |-> [id \in LockIds |-> Free]]

NextLocks ==
    \/ \E t \in Tasks, op \in Ops, id \in LockIds : Call(t, op, id)
    \/ \E t \in Tasks : LockM(t)
    \/ \E t \in Tasks : RLockM(t)
    \/ \E t \in Tasks : Lookup(t)
    \/ \E t \in Tasks : LockC(t)
    \/ \E t \in Tasks : Make(t)
    \/ \E t \in Tasks : SourceCall(t)
    \/ \E t \in Tasks : Release(t)

SpecLocks == InitLocks /\ [][NextLocks]_vars

\* Every goroutine that can take a step takes one: each watcher at its Watch
\* call and at its select, and StartConnectionManager at m.ctx.Done().
GoroutineFairness ==
    /\ \A i \in 1..MaxSources :
          /\ WF_vars(\E ok \in BOOLEAN : WatcherStart(i, ok))
          /\ WF_vars(WatcherCtxDone(i) \/ WatcherChanClosed(i) \/ WatcherLine(i))
    /\ WF_vars(StartConnectionManager)

SpecFair == Init /\ [][NextDrain]_vars /\ GoroutineFairness

(***************************************************************************)
(* Properties.                                                             *)
(***************************************************************************)
OkConnect(s) == lastCall[s].op = "connect" /\ lastCall[s].err = "nil"

OkDisconnect(s) == lastCall[s].op = "disconnect" /\ lastCall[s].err = "nil"

\* C1 as stated: the registry holds a record for a server id exactly when the
\* most recent ConnectToServer / DisconnectFromServer call on that id was a
\* ConnectToServer that did not fail.
C1_RecordIffLastCallConnected ==
    \A s \in Servers : (s \in DOMAIN connections) <=> OkConnect(s)

\* C1 as the code has it: a record is added only by a ConnectToServer that
\* succeeds on an unknown id and is never removed; a successful connect or
\* disconnect leaves the record present, the disconnect with Connected false.
C1_RecordKept ==
    /\ [](\A s \in Servers :
            /\ OkConnect(s) => s \in DOMAIN connections
            /\ OkDisconnect(s) =>
                   s \in DOMAIN connections /\ ~connections[s].Connected
            /\ s \notin DOMAIN connections =>
                   lastCall[s].op = "none" \/ lastCall[s].err # "nil")
    /\ [][\A s \in Servers :
            /\ s \in DOMAIN connections => s \in DOMAIN connections'
            /\ (s \notin DOMAIN connections /\ s \in DOMAIN connections') =>
                   lastCall'[s] = Result("connect", "nil", "new", 0)]_vars

C1_Witness ==
    /\ OkDisconnect("s1")
    /\ "s1" \in DOMAIN connections

C4_GateAsStated ==
    [][\A s \in Servers, c \in Configs :
        (ConnectToServerUpTo(s, c, MaxAttemptsArg) /\ s \in DOMAIN connections
            /\ ~connections[s].Connected) =>
          LET conn  == connections[s]
              delay == DelayTable[conn.reconnectAttempts]
          IN  IF conn.lastReconnectTime < delay
              THEN /\ lastCall'[s].err = "reconnection delayed"
                   /\ lastCall'[s].remaining > 0
                   /\ lastCall'[s].remaining <= delay
              ELSE /\ lastCall'[s].err # "reconnection delayed"
                   /\ connections'[s].reconnectAttempts = conn.reconnectAttempts + 1
                   /\ connections'[s].lastReconnectTime = 0
                   /\ Len(sources') = Len(sources) + 1
                   /\ connections'[s].LogSource = Len(sources')
                   /\ Len(watchers') = Len(watchers) + 1]_vars

\* C4 as the code has it: the call is rejected as delayed exactly when the
\* time since lastReconnectTime is less than the delay, and the remaining
\* duration is the delay less the elapsed time at a second clock reading (at
\* most the delay; positive when the clock has not moved in between).
\* Otherwise lastReconnectTime becomes now and reconnectAttempts is
\* incremented; then, if createLogSource fails, the error is returned and
\* nothing else changes, and if it succeeds the old source is closed, the new
\* one swapped in, Connected set, reconnectAttempts reset to 0 and one watcher
\* started.
C4_Gate ==
    [][\A s \in Servers, c \in Configs :
        (ConnectToServerUpTo(s, c, MaxAttemptsArg) /\ s \in DOMAIN connections
            /\ ~connections[s].Connected) =>
          LET conn  == connections[s]
              delay == DelayTable[conn.reconnectAttempts]
              since == conn.lastReconnectTime
              new   == Len(sources) + 1
          IN  IF since < delay
              THEN /\ lastCall'[s].err = "reconnection delayed"
                   /\ lastCall'[s].remaining <= delay - since
                   /\ lastCall'[s].remaining >= delay - since - ClockDrift
                   /\ connections' = connections =>
                          lastCall'[s].remaining = delay - since
                   /\ delay - since > 0 /\ delay - since <= delay
                   /\ UNCHANGED << sources, watchers >>
              ELSE IF createLogSource(c).err # "nil"
              THEN /\ lastCall'[s].err = "failed to reconnect to log source"
                   /\ connections' = [connections EXCEPT
                          ![s].reconnectAttempts = conn.reconnectAttempts + 1,
                          ![s].lastReconnectTime = 0]
                   /\ UNCHANGED << sources, watchers >>
              ELSE /\ lastCall'[s].err = "nil"
                   /\ connections' = [connections EXCEPT
                          ![s].reconnectAttempts = 0,
                          ![s].lastReconnectTime = 0,
                          ![s].LogSource = new,
                          ![s].Config = c,
                          ![s].Connected = TRUE,
                          ![s].LastUsed = 0]
                   /\ Len(sources') = new
                   /\ sources'[new] = NewSource
                   /\ sources'[conn.LogSource].closeCalls =
                          Min(sources[conn.LogSource].closeCalls + 1, CountCap)
                   /\ Len(watchers') = Len(watchers) + 1
                   /\ SubSeq(watchers', 1, Len(watchers)) = watchers
                   /\ watchers'[Len(watchers')].srv = s
                   /\ watchers'[Len(watchers')].pc = "start"]_vars

C4_Witness ==
    /\ lastCall["s1"].err = "reconnection delayed"
    /\ lastCall["s1"].remaining > 0
    /\ connections["s1"].reconnectAttempts = 3
    /\ Len(sources) = 2

Seconds(n) == Mul64(FromInt(n), Second)

\* C5 as stated: calculateReconnectDelay gives 0 for 0 attempts, 5 s, 10 s,
\* 20 s, 40 s for 1 to 4 attempts and 60 s for every larger count; the result
\* is never negative, never 0 for a count >= 1 and never above 60 s.
C5_BackoffTable ==
    ret # << >> =>
        /\ ret = CASE arg = 0 -> Zero64
                   [] arg = 1 -> Seconds(5)
                   [] arg = 2 -> Seconds(10)
                   [] arg = 3 -> Seconds(20)
                   [] arg = 4 -> Seconds(40)
                   [] OTHER   -> Seconds(60)
        /\ ~Neg64(ret)
        /\ arg >= 1 => ret # Zero64
        /\ ~Gt64(ret, Seconds(60))

\* The delay, in ticks, a record requires before its next reconnect attempt.
RequiredDelay(conns, s) == DelayTable[conns[s].reconnectAttempts]

\* C6 as stated: a failed ConnectToServer never lowers the delay required
\* before the next attempt and never takes it above 60 s; a successful one
\* resets it to 0.
C6_BackoffMonotone ==
    [][\A c \in Configs :
        (ConnectToServerUpTo("s1", c, MaxAttemptsArg)
            /\ "s1" \in DOMAIN connections) =>
          IF lastCall'["s1"].err # "nil"
          THEN /\ RequiredDelay(connections', "s1")
                      >= RequiredDelay(connections, "s1")
               /\ RequiredDelay(connections', "s1") <= AgeCap
          ELSE RequiredDelay(connections', "s1") = 0]_vars

\* C7 as stated: with a well-formed sftp config whose transport fails when the
\* watcher calls Watch, the second of three rapid ConnectToServer calls is
\* rejected as delayed with at most 5 s remaining, the third with at most
\* 10 s remaining, and reconnectAttempts is 2 afterwards.
C7_RapidReconnects ==
    [][\A s \in Servers :
        (/\ ConnectToServer(s, SftpCfg)
         /\ s \in DOMAIN connections
         /\ ~connections[s].Connected
         /\ connections[s].Config = SftpCfg
         /\ connections[s].LastUsed = 0
         /\ sources[connections[s].LogSource].chan = "none") =>
          /\ lastCall[s] = Result("connect", "nil", "new", 0) =>
                /\ lastCall'[s].err = "reconnection delayed"
                /\ lastCall'[s].remaining <= 1
          /\ lastCall[s].err = "reconnection delayed" =>
                /\ lastCall'[s].err = "reconnection delayed"
                /\ lastCall'[s].remaining <= 2
                /\ connections'[s].reconnectAttempts = 2]_vars

\* C8 as stated: a record with Connected true has exactly one watcher that
\* has not returned.
C8_OneWatcherWhenConnected ==
    \A s \in DOMAIN connections :
        connections[s].Connected =>
            Cardinality(ActiveWatchers(watchers, s)) = 1

\* C9: no ConnectToServer returns nil and leaves the record absent or its
\* reconnectAttempts other than 0, and reconnectAttempts changes in no other
\* way than that reset and an increment by one in a ConnectToServer that
\* passed the backoff gate and then failed.
C9_AttemptsReset ==
    [][\A s \in Servers :
        /\ (lastCall'[s].err = "nil"
              /\ (s \notin DOMAIN connections'
                    \/ connections'[s].reconnectAttempts # 0)) =>
              \A c \in Configs : ~ConnectToServer(s, c)
        /\ (s \in DOMAIN connections
              /\ connections'[s].reconnectAttempts
                     # connections[s].reconnectAttempts) =>
              \/ /\ connections'[s].reconnectAttempts = 0
                 /\ lastCall'[s].op = "connect"
                 /\ lastCall'[s].err = "nil"
              \/ /\ connections'[s].reconnectAttempts
                        = connections[s].reconnectAttempts + 1
                 /\ lastCall'[s].op = "connect"
                 /\ lastCall'[s].err = "failed to reconnect to log source"
                 /\ ~connections[s].Connected
                 /\ ~(connections[s].lastReconnectTime
                         < DelayTable[connections[s].reconnectAttempts])]_vars

C9_Witness ==
    /\ lastCall["s1"] = Result("connect", "nil", "reconnect", 0)
    /\ connections["s1"].reconnectAttempts = 0
    /\ connections["s1"].Config = SftpCfg
    /\ connections["s1"].Connected

\* C10 as stated: no LogSource has Close called on it twice, and once the
\* shutdown cleanup has run every LogSource has been closed.
C10_ClosedExactlyOnce ==
    \A j \in 1..Len(sources) :
        /\ sources[j].closeCalls <= 1
        /\ managerPc = "stopped" => sources[j].closeCalls = 1

\* C11: once m.ctx is cancelled, every watchLogs goroutine, whether started by
\* the connect that made the record (child context) or by a reconnect (m.ctx),
\* eventually returns.
C11_WatchersDrain ==
    \A i \in 1..MaxSources :
        [](rootCancelled /\ i <= Len(watchers) =>
              <>(i <= Len(watchers) /\ watchers[i].pc = "done"))

C11_Witness ==
    /\ rootCancelled
    /\ Len(watchers) = 2
    /\ watchers[1].ctx = "child" /\ watchers[2].ctx = "root"
    /\ \A i \in 1..Len(watchers) : watchers[i].pc = "done"
    /\ \A j \in 1..Len(sources) : sources[j].chan = "open"
    /\ connections["s1"].Connected

\* C12 as stated: when Shutdown returns every watcher has returned, and every
\* record that was connected has its LogSource closed and Connected false.
C12_ShutdownJoins ==
    [][Shutdown =>
        /\ \A i \in 1..Len(watchers') : watchers'[i].pc = "done"
        /\ \A s \in DOMAIN connections :
              connections[s].Connected =>
                  /\ ~connections'[s].Connected
                  /\ sources'[connections[s].LogSource].closeCalls > 0]_vars

MissingRequired(c) ==
    \/ c.FilePath = ""
    \/ c.Type \in {"sftp", "ftp"}
          /\ (c.Host = "" \/ c.Username = "" \/ c.Password = "")

UnsupportedType(c) == c.Type \notin {"local", "sftp", "ftp"}

\* C14: ConnectToServer for an id without a record, with a config that lacks
\* a required field or names an unsupported type, returns the
\* failed-to-create error and adds no record, no source and no watcher.
C14_InvalidConfigRejected ==
    [][("s1" \notin DOMAIN connections
          /\ (MissingRequired(arg) \/ UnsupportedType(arg))
          /\ ConnectToServer("s1", arg)) =>
            /\ lastCall'["s1"] =
                   Result("connect", "failed to create log source", "new", 0)
            /\ createLogSource(arg).err # "nil"
            /\ UNCHANGED << connections, sources, watchers >>]_vars

C14_Witness ==
    /\ lastCall["s1"].err = "failed to create log source"
    /\ arg.Type = "sftp" /\ arg.Password = ""
    /\ arg.Host # "" /\ arg.Username # "" /\ arg.FilePath # ""
    /\ "s1" \notin DOMAIN connections
    /\ watchers = << >>

\* C15 as stated: ConnectToServer builds no sftp or ftp source with a poll
\* frequency below 1 s or above 300 s: a config with such a value is
\* rejected, and an unset value becomes 5 s.
C15_PollFrequencyRange ==
    [][(arg.Type \in {"sftp", "ftp"} /\ ConnectToServer("s1", arg)) =>
        /\ arg.PollFrequency \notin (0..300) => lastCall'["s1"].err # "nil"
        /\ lastCall'["s1"].err = "nil" =>
              /\ createLogSource(arg).PollFrequency \in 1..300
              /\ arg.PollFrequency = 0 =>
                     createLogSource(arg).PollFrequency = 5]_vars

C18_ProbeIsolation ==
    [][TestLogTransport("s1") =>
          /\ connections' = connections
          /\ sources' = sources
          /\ watchers' = watchers
          /\ rootCancelled' = rootCancelled]_vars

\* A probe that failed against a record that is connected and stays so.
C18_Witness ==
    /\ ret # << >>
    /\ arg.includeLogProbe
    /\ ~ret.Healthy
    /\ ret.Reason = "connection_failed"
    /\ "s1" \in DOMAIN connections
    /\ connections["s1"].Connected
    /\ Len(watchers) = 1

TwelveReasons ==
    {"permission_denied", "authentication_failed", "log_file_not_found",
     "timeout", "connection_failed", "probe_failed", "missing_credentials",
     "log_path_is_directory", "unsupported_source_type", "not_configured",
     "probe_not_requested", "logwatcher_disconnected"}

\* C19 as stated: every non-empty reason of a returned status is one of the
\* twelve listed values.
C19_TwelveReasons ==
    (ret # << >> /\ ret.Reason # "") => ret.Reason \in TwelveReasons

\* C19, amended: every non-empty reason of a returned status is one of the
\* listed values other than missing_credentials, or missing_sftp_credentials,
\* or missing_ftp_credentials; an unhealthy status always carries a reason and
\* a healthy one never does.
C19_Reasons ==
    ret # << >> =>
        /\ ret.Reason # "" =>
              ret.Reason \in (TwelveReasons \ {"missing_credentials"})
                                \cup {"missing_sftp_credentials",
                                      "missing_ftp_credentials"}
        /\ ret.Healthy <=> ret.Reason = ""

\* An ftp probe of a server whose host is not set.
C19_Witness ==
    /\ ret # << >>
    /\ arg.includeLogProbe
    /\ ToLower(trimmedStringPtr(arg.LogSourceType)) = "ftp"
    /\ arg.LogHost = Null
    /\ ret.Reason = "missing_ftp_credentials"

C21_LinesInOrder ==
    /\ \A k \in 1..Len(ret.handed) : ret.handed[k] = k
    /\ ret.done \in {Len(ret.handed) - 1, Len(ret.handed)} \cap Nat
    /\ \A k \in 1..Len(arg.chan) : arg.chan[k] = Len(ret.handed) + k

\* Three lines went through while the source was ahead of the watcher.
C21_Witness ==
    /\ ret.done = 3
    /\ arg.next = 4
    /\ ret.handed = << 1, 2, 3 >>

\* C23: a watcher whose context has been cancelled passes no further line to
\* event processing, the lines still in the channel included.
C23_NoLineAfterCancel ==
    [][\A i \in 1..Len(watchers) :
          (watchers[i].pc = "loop" /\ CtxDone(watchers[i])) => ~LoopLine(i)]_vars

\* The line channel of the Log Source of connected record s is closed.
ChannelLost(s) ==
    /\ s \in DOMAIN connections
    /\ connections[s].Connected
    /\ sources[connections[s].LogSource].chan = "closed"

\* C22: when the line channel of a connected record's Log Source closes, the
\* record eventually has connected = false, and no caller is given an error
\* for it.
C22_FailureObserved ==
    /\ \A s \in Servers :
          [](ChannelLost(s) =>
                <>(s \in DOMAIN connections /\ ~connections[s].Connected))
    /\ [][\A i \in 1..MaxSources :
             (WatcherChanClosed(i) \/ \E ok \in BOOLEAN : WatcherStart(i, ok)) =>
                 lastCall' = lastCall]_vars

\* C25: a watcher that ends, on a closed channel or on a cancelled context,
\* has set the record's connected to false and closed the Log Source it
\* watched before it returns.
C25_WatcherCleansUp ==
    [][\A i \in 1..Len(watchers) :
          (watchers[i].pc = "loop" /\ watchers'[i].pc = "done") =>
              /\ ~connections'[watchers[i].srv].Connected
              /\ sources'[watchers[i].src].closeCalls > 0]_vars

\* C24: the cancel handle of a record is in place, not yet called, for as
\* long as a lifecycle of the record lasts, and it is called once when the
\* lifecycle ends: never a second time, also when a reconnect began the
\* lifecycle.
C24_CancelOncePerLifecycle ==
    /\ [](\A s \in DOMAIN connections :
            /\ connections[s].cancelCalls <= 1
            /\ connections[s].Connected => connections[s].cancelCalls = 0)
    /\ [][managerPc' = "stopped" =>
             \A s \in DOMAIN connections : connections'[s].cancelCalls = 1]_vars

\* DisconnectFromServer(s) has just returned nil.
Disconnected(s) ==
    /\ lastCall'[s] # lastCall[s]
    /\ lastCall'[s].op = "disconnect"
    /\ lastCall'[s].err = "nil"

\* C26: every watcher observes the context of its record, a child of m.ctx
\* that the record's cancel handle cancels: the cancel call of
\* DisconnectFromServer(s) cancels the context of every watcher of s that has
\* not returned, and of no watcher of another record.
C26_WatcherContext ==
    [][\A s \in ServerIDs : Disconnected(s) =>
          \A i \in 1..Len(watchers) :
              IF watchers[i].srv = s
              THEN watchers[i].pc # "done" => CtxDone(watchers[i])'
              ELSE CtxDone(watchers[i])' = CtxDone(watchers[i])]_vars

\* C27: a watcher that returns on a closed channel marks a record lost only
\* if the channel is that of the record's current Log Source: after a
\* disconnect and a new connect, the watcher of the previous source cannot
\* set connected = false on the new connection.
C27_OwnConnectionOnly ==
    [][\A i \in 1..Len(watchers) :
          LET s == watchers[i].srv
          IN  (/\ watchers[i].pc = "loop"
               /\ watchers'[i].pc = "done"
               /\ connections[s].Connected
               /\ ~connections'[s].Connected) =>
                  watchers[i].src = connections[s].LogSource]_vars

\* C28: a task that holds m.mu and a conn.mu took m.mu first, and no task
\* asks for m.mu while it holds a conn.mu; and whenever some task is inside
\* an operation, some task inside an operation can take its next step: no
\* interleaving of the operations and the watchers ends in a deadlock.
C28_LockOrder ==
    /\ \A t \in Tasks :
          /\ Len(arg[t].held) = 2 => arg[t].held = << "m.mu", "conn.mu" >>
          /\ (~Idle(t) /\ Step(t).k \in {"Lock", "RLock"}) => arg[t].held = << >>
    /\ (\E t \in Tasks : ~Idle(t)) => \E t \in Tasks : CanStep(t)

\* Two tasks hold a lock each and the third is blocked in m.mu.Lock().
C28_Witness ==
    /\ ret.ww # {}
    /\ ret.r # {}
    /\ \E id \in LockIds : ret.c[id] # Free /\ ret.c[id] \notin ret.r
    /\ \E t \in Tasks : arg[t].held = << "m.mu", "conn.mu" >>

\* C29: no task makes or closes a Log Source while it holds m.mu.
C29_NoSourceCallUnderRegistryLock ==
    \A t \in Tasks :
        (~Idle(t) /\ Step(t).k \in {"createLogSource", "Close"}) =>
            \A k \in 1..Len(arg[t].held) : arg[t].held[k] # "m.mu"

\* C30: a ConnectToServer that is turned away as delayed changes nothing in
\* the record (reconnectAttempts, lastReconnectTime, LogSource, Config,
\* Connected, LastUsed: only the clock moves on while it runs), makes no
\* source and starts no watcher, so early calls do not lengthen the wait; and
\* a call made once the delay has passed is let through and, with a config
\* createLogSource accepts, succeeds.
C30_DelayedCallChangesNothing ==
    [][\A s \in Servers :
          (s \in DOMAIN connections /\ ~connections[s].Connected) =>
              LET early == connections[s].lastReconnectTime
                               < DelayTable[connections[s].reconnectAttempts]
              IN  /\ (early /\ \E c \in {SftpCfg, NoHostCfg} :
                                  ConnectToServerUpTo(s, c, MaxAttemptsArg)) =>
                         /\ lastCall'[s].err = "reconnection delayed"
                         /\ \E d \in 0..ClockDrift :
                               connections' = Advance(connections, d)
                         /\ sources' = sources
                         /\ watchers' = watchers
                  /\ (~early /\ ConnectToServerUpTo(s, SftpCfg, MaxAttemptsArg)) =>
                         /\ lastCall'[s].err = "nil"
                         /\ connections'[s].Connected]_vars

\* A call was turned away after part of the wait had passed.
C30_Witness ==
    /\ "s1" \in DOMAIN connections
    /\ ~connections["s1"].Connected
    /\ lastCall["s1"].err = "reconnection delayed"
    /\ connections["s1"].reconnectAttempts = 2
    /\ connections["s1"].lastReconnectTime > 0
    /\ lastCall["s1"].remaining < DelayTable[2]

\* C31: a reconnect that passes the backoff gate and whose createLogSource
\* fails returns the error and leaves LogSource, Config, Connected and
\* LastUsed of the record as they were, closes no source and starts no
\* watcher; reconnectAttempts has grown by one and lastReconnectTime is now.
C31_FailedReconnect ==
    [][\A s \in Servers :
          (/\ s \in DOMAIN connections
           /\ ~connections[s].Connected
           /\ ~(connections[s].lastReconnectTime
                   < DelayTable[connections[s].reconnectAttempts])
           /\ ConnectToServerUpTo(s, NoHostCfg, MaxAttemptsArg)) =>
              /\ lastCall'[s].err = "failed to reconnect to log source"
              /\ connections'[s].LogSource = connections[s].LogSource
              /\ connections'[s].Config = connections[s].Config
              /\ connections'[s].Connected = connections[s].Connected
              /\ connections'[s].LastUsed = connections[s].LastUsed
              /\ connections'[s].cancelCalls = connections[s].cancelCalls
              /\ connections'[s].reconnectAttempts
                     = connections[s].reconnectAttempts + 1
              /\ connections'[s].lastReconnectTime = 0
              /\ sources' = sources
              /\ watchers' = watchers]_vars

\* A first failed reconnect: the record still holds the sftp config and its
\* unclosed source.
C31_Witness ==
    /\ "s1" \in DOMAIN connections
    /\ lastCall["s1"].err = "failed to reconnect to log source"
    /\ connections["s1"].reconnectAttempts = 1
    /\ connections["s1"].lastReconnectTime = 0
    /\ connections["s1"].Config = SftpCfg
    /\ sources[connections["s1"].LogSource].closeCalls = 0

\* C32: a record with Connected = true has reconnectAttempts = 0; so the
\* ConnectToServer that follows a successful DisconnectFromServer of the
\* record, with a config createLogSource accepts, is not turned away as
\* delayed: it reconnects.
C32_ConnectedMeansNoAttempts ==
    /\ [](\A s \in DOMAIN connections :
            connections[s].Connected => connections[s].reconnectAttempts = 0)
    /\ [][\A s \in Servers :
             (/\ lastCall[s].op = "disconnect"
              /\ lastCall[s].err = "nil"
              /\ ConnectToServer(s, SftpCfg)) =>
                 /\ lastCall'[s] = Result("connect", "nil", "reconnect", 0)
                 /\ connections'[s].Connected]_vars

\* A record that was disconnected and connected again at once.
C32_Witness ==
    /\ "s1" \in DOMAIN connections
    /\ connections["s1"].Connected
    /\ connections["s1"].LogSource = 2
    /\ connections["s1"].cancelCalls = 1
    /\ connections["s1"].lastReconnectTime = 0
    /\ sources[1].closeCalls = 2
    /\ lastCall["s1"] = Result("connect", "nil", "reconnect", 0)

\* What a retry would change in record s.
RetryFields(conns, s) ==
    << conns[s].reconnectAttempts, conns[s].LogSource, conns[s].Config >>

\* C33: no step of a watcher changes reconnectAttempts, lastReconnectTime,
\* LogSource or Config of a record, makes a source or starts a watcher; these
\* change only in a step of ConnectToServer.
C33_NoAutoRetry ==
    /\ [][\A i \in 1..Len(watchers) :
             ((\E ok \in BOOLEAN : WatcherStart(i, ok)) \/ WatcherCtxDone(i)
                  \/ WatcherChanClosed(i) \/ WatcherLine(i)) =>
                 /\ DOMAIN connections' = DOMAIN connections
                 /\ \A s \in DOMAIN connections :
                       /\ RetryFields(connections', s) = RetryFields(connections, s)
                       /\ connections'[s].lastReconnectTime
                              = connections[s].lastReconnectTime
                 /\ Len(sources') = Len(sources)
                 /\ Len(watchers') = Len(watchers)]_vars
    /\ [][(\/ Len(watchers') # Len(watchers)
           \/ Len(sources') # Len(sources)
           \/ \E s \in DOMAIN connections :
                 RetryFields(connections', s) # RetryFields(connections, s)) =>
              \E s \in Servers, c \in {SftpCfg, NoHostCfg} : ConnectToServer(s, c)]_vars

\* The transport was lost and the watcher has marked the record and returned:
\* nothing else has happened to the record.
C33_Witness ==
    /\ "s1" \in DOMAIN connections
    /\ ~connections["s1"].Connected
    /\ connections["s1"].cancelCalls = 0
    /\ connections["s1"].reconnectAttempts = 0
    /\ connections["s1"].LogSource = 1
    /\ Len(sources) = 1
    /\ sources[1].chan = "closed"
    /\ Len(watchers) = 1
    /\ watchers[1].pc = "done"
    /\ lastCall["s1"] = Result("connect", "nil", "new", 0)

\* C34: every GetConnectionStats result has total_connections =
\* connected_connections + disconnected_connections = the sum of the
\* source_types counts; an iteration adds a server_metrics entry exactly when
\* the record it visits is connected, so the entries are as many as
\* connected_connections; and a call that returns while the only record is
\* the connected record of a first successful connect reports
\* connected_connections = 1.
C34_StatsTotals ==
    /\ [](ret.done =>
            /\ ret.total = ret.connected + ret.disconnected
            /\ ret.total = SumOf(ret.sourceTypes, SourceTypes)
            /\ Cardinality(ret.serverMetrics) = ret.connected
            /\ ret.serverMetrics \subseteq DOMAIN connections)
    /\ [][/\ \A s \in StatsIds :
                (arg.busy /\ StatsVisit(s)) =>
                    (s \in ret'.serverMetrics <=> connections[s].Connected)
          /\ \A s \in StatsIds :
                (/\ arg.busy
                 /\ StatsReturn
                 /\ DOMAIN connections = {s}
                 /\ connections[s].Connected
                 /\ lastCall[s] = Result("connect", "nil", "new", 0))
                => ret'.connected = 1]_vars

\* A result over two records of different source types, one connected and
\* one not.
C34_Witness ==
    /\ ret.done
    /\ ret.total = 2
    /\ ret.connected = 1
    /\ ret.disconnected = 1
    /\ ret.sourceTypes["local"] = 1
    /\ ret.sourceTypes["sftp"] = 1

\* The request names a log source type and a log file path.
Configured(req) ==
    /\ trimmedStringPtr(req.LogSourceType) # ""
    /\ trimmedStringPtr(req.LogFilePath) # ""

\* C35: a status request without log_probe for a server that has a log source
\* type and a file path reports healthy exactly when the manager holds a
\* connected record for the server; its reason is empty when healthy,
\* logwatcher_disconnected when a record exists and is not connected, and
\* probe_not_requested when the manager has no record.
C35_StatusWithoutProbe ==
    [][(~arg.includeLogProbe /\ Configured(arg) /\ TestLogTransport("s1")) =>
          /\ ret'.Enabled
          /\ ret'.Healthy = ("s1" \in DOMAIN connections
                                /\ connections["s1"].Connected)
          /\ ret'.Reason =
                IF "s1" \notin DOMAIN connections THEN "probe_not_requested"
                ELSE IF connections["s1"].Connected THEN ""
                ELSE "logwatcher_disconnected"]_vars

\* A status without probe of a server whose record is disconnected.
C35_Witness ==
    /\ ret # << >>
    /\ ~arg.includeLogProbe
    /\ "s1" \in DOMAIN connections
    /\ ~connections["s1"].Connected
    /\ ~ret.Healthy
    /\ ret.Reason = "logwatcher_disconnected"

\* What the probe of a configured server finds: the type is one the switch
\* knows, a remote source has its credentials, the operation answered without
\* error and a local path is not a directory.
ProbeSucceeds(req) ==
    LET type == ToLower(trimmedStringPtr(req.LogSourceType))
    IN  /\ type \in {"local", "sftp", "ftp"}
        /\ type # "local" =>
              /\ trimmedStringPtr(req.LogHost) # ""
              /\ trimmedStringPtr(req.LogUsername) # ""
              /\ trimmedStringPtr(req.LogPassword) # ""
        /\ req.answer.err = NilErr
        /\ type = "local" => ~req.answer.isDir

\* C36: every status the computation returns is healthy exactly when its
\* reason is empty; a status that is not enabled is unhealthy with reason
\* not_configured; and with log_probe requested the healthy value of an
\* enabled status is what the probe found, whatever the manager's connected
\* flag says.
C36_StatusShape ==
    [][TestLogTransport("s1") =>
          /\ ret'.Healthy <=> ret'.Reason = ""
          /\ ret'.Enabled = Configured(arg)
          /\ ~ret'.Enabled => (~ret'.Healthy /\ ret'.Reason = "not_configured")
          /\ (arg.includeLogProbe /\ ret'.Enabled) =>
                (ret'.Healthy <=> ProbeSucceeds(arg))]_vars

\* A probe that succeeded although the record is disconnected.
C36_Witness ==
    /\ ret # << >>
    /\ arg.includeLogProbe
    /\ ret.Healthy
    /\ "s1" \in DOMAIN connections
    /\ ~connections["s1"].Connected

\* C37 as stated: once Shutdown has cancelled m.ctx, no ConnectToServer
\* leaves a record that reports connected = true while no watcher is running
\* for it.  Under SpecShut every record is made by a connect issued after
\* Shutdown.
C37_NoLiveRecordAfterShutdown ==
    \A s \in DOMAIN connections :
        (rootCancelled /\ connections[s].Connected) =>
            ActiveWatchers(watchers, s) # {}

\* C38: the manager call of a ServerUpdate that stored a server with a log
\* source type and a file path is ConnectToServer with the config of the
\* stored server (a record it makes carries that config); the call of a
\* ServerUpdate that stored a server without one of them is
\* DisconnectFromServer, after which a record of the server is not connected.
C38_UpdateReachesManager ==
    [][\A server \in StoredServers :
          ServerUpdate("s1", server) =>
              IF server.LogSourceType # Null /\ server.LogFilePath # Null
              THEN /\ lastCall'["s1"].op = "connect"
                   /\ lastCall'["s1"] = Result("connect", "nil", "new", 0) =>
                         connections'["s1"].Config = UpdateConfig(server)
              ELSE /\ lastCall'["s1"].op = "disconnect"
                   /\ "s1" \in DOMAIN connections =>
                         ~connections'["s1"].Connected]_vars

\* An update that cleared the log config of a server just disconnected a
\* record that an earlier update had connected: its watcher is still there.
C38_Witness ==
    /\ "s1" \in DOMAIN connections
    /\ ~connections["s1"].Connected
    /\ connections["s1"].cancelCalls = 1
    /\ lastCall["s1"] = Result("disconnect", "nil", "none", 0)
    /\ ActiveWatchers(watchers, "s1") # {}

\* C39 as stated: after ServerDelete has deleted a server, the manager holds
\* no connected record for its id and no watcher of it that is running with
\* a context nobody has cancelled.
C39_DeleteReleases ==
    \A s \in arg :
        /\ s \in DOMAIN connections => ~connections[s].Connected
        /\ \A i \in ActiveWatchers(watchers, s) : CtxDone(watchers[i])

====
